---- MODULE Spec2Model ----
(***************************************************************************)
(* NexusDrop-P2P.                                                          *)
(*   Spec         : the signaling server's room & peer registry            *)
(*                  (src/unnamed/part_000).                                *)
(*   TransferSpec : the chunked file transfer over an open data channel,   *)
(*                  in its two implementations: the TransferView component *)
(*                  and NexusDropClient.sendFile/handleDataChannelMessage. *)
(***************************************************************************)
EXTENDS Bags, FiniteSets, Integers, Sequences, TLC

\* ------------------------------------------------------------------ bounds
\* Number of signaling connections ever accepted (uuidv4 ids never repeat).
MaxPeers == 3
\* Number of distinct room codes the random generator is allowed to draw.
NumCodes == 2

\* Longest file, in bytes.
MaxFileLen == 5
\* Bytes per chunk: 16 * 1024 in the source (src/types.ts:30 and
\* this.chunkSize), scaled down so that files of a few bytes span chunks.
CHUNK_SIZE == 2
\* The backpressure limit on bufferedAmount: 16 * 1024 * 1024 in the source
\* (TransferView.tsx:78), scaled down with the chunk size.
HIGH_WATER_MARK == 3
\* Largest byte value of the file contents.
MaxByte == 1
\* Number of distinct file ids the random generator is allowed to draw.
NumFileIds == 2
\* Receiver under arbitrary traffic: largest declared size, longest payload
\* of an arriving data frame, most fragments stored, most files assembled.
MaxRcvSize == 2
MaxRcvPayload == 1
MaxRcvChunks == 2
MaxRcvFiles == 1
MaxNegPeers == 3
MaxCandidates == 1
MaxFanPeers == 2
MaxSends == 2

\* ------------------------------------------------------- registry: values
PeerIds == 1..MaxPeers

\* generateRoomCode's alphabet (no I, O, 0, 1).
chars == <<"A","B","C","D","E","F","G","H","J","K","L","M","N","P","Q","R",
           "S","T","U","V","W","X","Y","Z","2","3","4","5","6","7","8","9">>

\* Length of a room code.
CODE_LEN == 6

\* generateRoomCode: one character of `chars` per random draw r[i].
generateRoomCode(r) == [i \in 1..CODE_LEN |-> chars[r[i]]]

\* The random draws the model enumerates: the first five fixed, the last free.
Draws == { [i \in 1..CODE_LEN |-> IF i = CODE_LEN THEN k ELSE 1] : k \in 1..NumCodes }

RoomCodes == { generateRoomCode(r) : r \in Draws }

\* A code no room can have ("I" is not in the alphabet).
FAKEID == <<"F","A","K","E","I","D">>

\* peer.roomId = null
NoRoom == <<>>

\* message.to absent
NoTo == 0

\* One kind per case group of handleMessage (both groups call forwardToRoom).
ForwardKinds == {"offer", "file-metadata"}

VARIABLES
  peers,      \* Map peerId -> [roomId, open]   (open: ws.readyState = OPEN)
  rooms,      \* Map roomId -> Set of peerIds
  nextPeerId, \* the next fresh id uuidv4 hands out
  sent,       \* bag of [to, msg]: what the last handler wrote to the sockets
  lastOp,     \* the event the last handler served
  before,     \* the peers and rooms maps as that handler found them
  impl,       \* which sender/receiver pair runs: "TransferView" or "NexusDropClient"
  file,       \* the bytes of the file to send
  chan,       \* the data channel: messages sent and not yet delivered, in order
  chanOpen,   \* dataChannel.readyState = 'open'
  wire,       \* every message the sender handed to channel.send, in order
  sender,     \* the sending side's state
  receiver,   \* the receiving side's state
  cancel,     \* who reset, if anyone, and what had been sent and exposed by then
  nodes,      \* the negotiating browser tabs / clients, by id
  inbox,      \* per node: signaling messages on their way to it, in order
  toServer,   \* per client: messages on their way to the signaling server
  log,        \* bag of negotiation events: who did what, towards whom, handling what
  fan         \* one NexusDropClient's data channels and its sendFile over them

regVars == <<peers, rooms, nextPeerId, sent, lastOp, before>>

xferVars == <<impl, file, chan, chanOpen, wire, sender, receiver>>

negVars == <<nodes, inbox, toServer, log>>

auxVars == <<cancel, nodes, inbox, toServer, log, fan>>

vars == <<peers, rooms, nextPeerId, sent, lastOp, before,
          impl, file, chan, chanOpen, wire, sender, receiver, cancel,
          nodes, inbox, toServer, log, fan>>

\* ------------------------------------------------------ registry: helpers
Op(op, peerId, roomId, msg) ==
  [op |-> op, peer |-> peerId, roomId |-> roomId, msg |-> msg]

NoMsg == [type |-> "none", to |-> NoTo, from |-> 0]

Snapshot(ps, rs) == [peers |-> ps, rooms |-> rs]

\* The text of joinRoom's error, word by word.
RoomNotFound == <<"Room", "not", "found">>

\* sendToPeer(peerId, message) against the peer map ps.
sendToPeer(ps, peerId, message) ==
  IF peerId \in DOMAIN ps /\ ps[peerId].open
  THEN SetToBag({[to |-> peerId, msg |-> message]})
  ELSE EmptyBag

\* room.forEach(id => sendToPeer(id, message(id)))
RECURSIVE forEachSend(_, _, _)
forEachSend(ps, S, message) ==
  IF S = {} THEN EmptyBag
  ELSE LET id == CHOOSE x \in S : TRUE
       IN sendToPeer(ps, id, message) (+) forEachSend(ps, S \ {id}, message)

\* Map.delete / Map.set on a TLA+ function
MapDelete(m, k) == [x \in DOMAIN m \ {k} |-> m[x]]
MapSet(m, k, v) == [x \in DOMAIN m \cup {k} |-> IF x = k THEN v ELSE m[x]]

\* ---------------------------------------------------- registry: functions
\* Each returns the registry after the call and the bag of messages written.

createRoom(ps, rs, peerId, roomId) ==
  LET rs1 == MapSet(rs, roomId, {peerId})
      ps1 == [ps EXCEPT ![peerId].roomId = roomId]
  IN [peers |-> ps1, rooms |-> rs1,
      sent  |-> sendToPeer(ps1, peerId, [type |-> "room-created", roomId |-> roomId])]

\* Faulty variant of joinRoom: peer-joined also goes to the joiner (the filter
\* `otherPeerId !== peerId` is lost).
joinRoom_NotifiesJoiner(ps, rs, peerId, roomId) ==
  IF roomId \notin DOMAIN rs
  THEN [peers |-> ps, rooms |-> rs,
        sent  |-> sendToPeer(ps, peerId, [type |-> "error", message |-> RoomNotFound])]
  ELSE LET room == rs[roomId] \cup {peerId}
           rs1  == [rs EXCEPT ![roomId] = room]
           ps1  == [ps EXCEPT ![peerId].roomId = roomId]
       IN [peers |-> ps1, rooms |-> rs1,
           sent  |-> sendToPeer(ps1, peerId,
                       [type |-> "room-joined", roomId |-> roomId,
                        peers |-> {id \in room : id # peerId}])
                     (+) forEachSend(ps1, room,
                                     [type |-> "peer-joined", peerId |-> peerId])]

\* Faulty variant of joinRoom: a missing room is created instead of reported.
joinRoom_CreatesMissing(ps, rs, peerId, roomId) ==
  LET rs0  == IF roomId \in DOMAIN rs THEN rs ELSE MapSet(rs, roomId, {})
      room == rs0[roomId] \cup {peerId}
      rs1  == [rs0 EXCEPT ![roomId] = room]
      ps1  == [ps EXCEPT ![peerId].roomId = roomId]
  IN [peers |-> ps1, rooms |-> rs1,
      sent  |-> sendToPeer(ps1, peerId,
                  [type |-> "room-joined", roomId |-> roomId,
                   peers |-> {id \in room : id # peerId}])
                (+) forEachSend(ps1, {id \in room : id # peerId},
                                [type |-> "peer-joined", peerId |-> peerId])]

\* Faulty variant of joinRoom: room-joined lists the whole member set, the
\* joiner included.
joinRoom_ListsJoiner(ps, rs, peerId, roomId) ==
  IF roomId \notin DOMAIN rs
  THEN [peers |-> ps, rooms |-> rs,
        sent  |-> sendToPeer(ps, peerId, [type |-> "error", message |-> RoomNotFound])]
  ELSE LET room == rs[roomId] \cup {peerId}
           rs1  == [rs EXCEPT ![roomId] = room]
           ps1  == [ps EXCEPT ![peerId].roomId = roomId]
       IN [peers |-> ps1, rooms |-> rs1,
           sent  |-> sendToPeer(ps1, peerId,
                       [type |-> "room-joined", roomId |-> roomId, peers |-> room])
                     (+) forEachSend(ps1, {id \in room : id # peerId},
                                     [type |-> "peer-joined", peerId |-> peerId])]

joinRoom(ps, rs, peerId, roomId) ==
  IF roomId \notin DOMAIN rs
  THEN [peers |-> ps, rooms |-> rs,
        sent  |-> sendToPeer(ps, peerId, [type |-> "error", message |-> RoomNotFound])]
  ELSE LET room == rs[roomId] \cup {peerId}
           rs1  == [rs EXCEPT ![roomId] = room]
           ps1  == [ps EXCEPT ![peerId].roomId = roomId]
       IN [peers |-> ps1, rooms |-> rs1,
           sent  |-> sendToPeer(ps1, peerId,
                       [type |-> "room-joined", roomId |-> roomId,
                        peers |-> {id \in room : id # peerId}])
                     (+) forEachSend(ps1, {id \in room : id # peerId},
                                     [type |-> "peer-joined", peerId |-> peerId])]

\* Faulty variant of leaveRoom: the members are notified before the leaver is
\* taken out of the set, so the leaver is told of its own departure.
leaveRoom_NotifiesLeaver(ps, rs, peerId, roomId) ==
  IF roomId \notin DOMAIN rs
  THEN [peers |-> ps, rooms |-> rs, sent |-> EmptyBag]
  ELSE LET room == rs[roomId] \ {peerId}
           rs1  == IF room = {} THEN MapDelete(rs, roomId)
                                ELSE [rs EXCEPT ![roomId] = room]
           ps1  == IF peerId \in DOMAIN ps
                   THEN [ps EXCEPT ![peerId].roomId = NoRoom] ELSE ps
       IN [peers |-> ps1, rooms |-> rs1,
           sent  |-> forEachSend(ps, rs[roomId], [type |-> "peer-left", peerId |-> peerId])]

leaveRoom(ps, rs, peerId, roomId) ==
  IF roomId \notin DOMAIN rs
  THEN [peers |-> ps, rooms |-> rs, sent |-> EmptyBag]
  ELSE LET room == rs[roomId] \ {peerId}
           rs1  == IF room = {} THEN MapDelete(rs, roomId)
                                ELSE [rs EXCEPT ![roomId] = room]
           ps1  == IF peerId \in DOMAIN ps
                   THEN [ps EXCEPT ![peerId].roomId = NoRoom] ELSE ps
       IN [peers |-> ps1, rooms |-> rs1,
           sent  |-> forEachSend(ps, room, [type |-> "peer-left", peerId |-> peerId])]

\* Faulty variant of forwardToRoom: the message is forwarded as the client
\* wrote it, `from` included.
forwardToRoom_KeepsFrom(ps, rs, senderId, message) ==
  IF senderId \notin DOMAIN ps \/ ps[senderId].roomId = NoRoom
  THEN EmptyBag
  ELSE IF ps[senderId].roomId \notin DOMAIN rs
  THEN EmptyBag
  ELSE LET room == rs[ps[senderId].roomId]
           forwardMessage == message
       IN IF message.to # NoTo
          THEN sendToPeer(ps, message.to, forwardMessage)
          ELSE forEachSend(ps, {id \in room : id # senderId}, forwardMessage)

\* Faulty variant of forwardToRoom: message.to is ignored, every message is broadcast.
forwardToRoom_IgnoresTo(ps, rs, senderId, message) ==
  IF senderId \notin DOMAIN ps \/ ps[senderId].roomId = NoRoom
  THEN EmptyBag
  ELSE IF ps[senderId].roomId \notin DOMAIN rs
  THEN EmptyBag
  ELSE LET room == rs[ps[senderId].roomId]
           forwardMessage == [message EXCEPT !.from = senderId]
       IN forEachSend(ps, {id \in room : id # senderId}, forwardMessage)

\* Faulty variant of forwardToRoom: the broadcast does not skip the sender.
forwardToRoom_EchoesSender(ps, rs, senderId, message) ==
  IF senderId \notin DOMAIN ps \/ ps[senderId].roomId = NoRoom
  THEN EmptyBag
  ELSE IF ps[senderId].roomId \notin DOMAIN rs
  THEN EmptyBag
  ELSE LET room == rs[ps[senderId].roomId]
           forwardMessage == [message EXCEPT !.from = senderId]
       IN IF message.to # NoTo
          THEN sendToPeer(ps, message.to, forwardMessage)
          ELSE forEachSend(ps, room, forwardMessage)

forwardToRoom(ps, rs, senderId, message) ==
  IF senderId \notin DOMAIN ps \/ ps[senderId].roomId = NoRoom
  THEN EmptyBag
  ELSE IF ps[senderId].roomId \notin DOMAIN rs
  THEN EmptyBag
  ELSE LET room == rs[ps[senderId].roomId]
           forwardMessage == [message EXCEPT !.from = senderId]
       IN IF message.to # NoTo
          THEN sendToPeer(ps, message.to, forwardMessage)
          ELSE forEachSend(ps, {id \in room : id # senderId}, forwardMessage)

\* ------------------------------------------------------ registry: actions
RegInit ==
  /\ peers = <<>>
  /\ rooms = <<>>
  /\ nextPeerId = 1
  /\ sent = EmptyBag
  /\ lastOp = Op("idle", 0, NoRoom, NoMsg)
  /\ before = Snapshot(<<>>, <<>>)

\* The event loop runs one handler at a time; the messages a handler wrote
\* are on their way (sent is empty again) before the next event is served.
Idle == lastOp.op = "idle"

\* Faulty variant of Connect: the peer is registered but never told its id.
Connect_Silent ==
  /\ before' = Snapshot(peers, rooms)
  /\ Idle
  /\ nextPeerId <= MaxPeers
  /\ LET peerId == nextPeerId
     IN /\ peers' = MapSet(peers, peerId, [roomId |-> NoRoom, open |-> TRUE])
        /\ sent' = EmptyBag
        /\ lastOp' = Op("connect", peerId, NoRoom, NoMsg)
  /\ nextPeerId' = nextPeerId + 1
  /\ UNCHANGED <<rooms, xferVars, auxVars>>

\* wss.on('connection')
Connect ==
  /\ before' = Snapshot(peers, rooms)
  /\ Idle
  /\ nextPeerId <= MaxPeers
  /\ LET peerId == nextPeerId
     IN /\ peers' = MapSet(peers, peerId, [roomId |-> NoRoom, open |-> TRUE])
        /\ sent' = SetToBag({[to |-> peerId, msg |-> [type |-> "peer-id", peerId |-> peerId]]})
        /\ lastOp' = Op("connect", peerId, NoRoom, NoMsg)
  /\ nextPeerId' = nextPeerId + 1
  /\ UNCHANGED <<rooms, xferVars, auxVars>>

\* The socket leaves readyState OPEN (closing handshake started); the
\* 'close' event has not been emitted yet.
SocketClosing(peerId) ==
  /\ before' = Snapshot(peers, rooms)
  /\ Idle
  /\ peerId \in DOMAIN peers
  /\ peers[peerId].open
  /\ peers' = [peers EXCEPT ![peerId].open = FALSE]
  /\ sent' = EmptyBag
  /\ lastOp' = Op("closing", peerId, NoRoom, NoMsg)
  /\ UNCHANGED <<rooms, nextPeerId, xferVars, auxVars>>

\* ws.on('close')
OnClose(peerId) ==
  /\ before' = Snapshot(peers, rooms)
  /\ Idle
  /\ peerId \in DOMAIN peers
  /\ LET roomId == peers[peerId].roomId
         r == IF roomId # NoRoom
              THEN leaveRoom([peers EXCEPT ![peerId].open = FALSE], rooms, peerId, roomId)
              ELSE [peers |-> peers, rooms |-> rooms, sent |-> EmptyBag]
     IN /\ peers' = MapDelete(r.peers, peerId)
        /\ rooms' = r.rooms
        /\ sent' = r.sent
        /\ lastOp' = Op("close", peerId, roomId, NoMsg)
  /\ UNCHANGED <<nextPeerId, xferVars, auxVars>>

\* handleMessage serves a request only for a registered peer; requests
\* arrive on sockets that are OPEN.
CanRequest(peerId) == Idle /\ peerId \in DOMAIN peers /\ peers[peerId].open

\* The handler has returned and its writes have left the server.
Flush ==
  /\ ~Idle
  /\ sent' = EmptyBag
  /\ lastOp' = Op("idle", 0, NoRoom, NoMsg)
  /\ before' = Snapshot(<<>>, <<>>)
  /\ UNCHANGED <<peers, rooms, nextPeerId, xferVars, auxVars>>

\* handleMessage, case 'create-room'
CreateRoomReq(peerId) ==
  /\ before' = Snapshot(peers, rooms)
  /\ CanRequest(peerId)
  /\ \E draw \in Draws :
       LET roomId == generateRoomCode(draw)
           r == createRoom(peers, rooms, peerId, roomId)
       IN /\ peers' = r.peers
          /\ rooms' = r.rooms
          /\ sent' = r.sent
          /\ lastOp' = Op("create-room", peerId, roomId, NoMsg)
  /\ UNCHANGED <<nextPeerId, xferVars, auxVars>>

\* handleMessage, case 'join-room'
JoinRoomReq(peerId) ==
  /\ before' = Snapshot(peers, rooms)
  /\ CanRequest(peerId)
  /\ \E roomId \in RoomCodes \cup {FAKEID} :
       LET r == joinRoom(peers, rooms, peerId, roomId)
       IN /\ peers' = r.peers
          /\ rooms' = r.rooms
          /\ sent' = r.sent
          /\ lastOp' = Op("join-room", peerId, roomId, NoMsg)
  /\ UNCHANGED <<nextPeerId, xferVars, auxVars>>

\* handleMessage, case 'leave-room'
LeaveRoomReq(peerId) ==
  /\ before' = Snapshot(peers, rooms)
  /\ CanRequest(peerId)
  /\ LET roomId == peers[peerId].roomId
         r == IF roomId # NoRoom
              THEN leaveRoom(peers, rooms, peerId, roomId)
              ELSE [peers |-> peers, rooms |-> rooms, sent |-> EmptyBag]
     IN /\ peers' = r.peers
        /\ rooms' = r.rooms
        /\ sent' = r.sent
        /\ lastOp' = Op("leave-room", peerId, roomId, NoMsg)
  /\ UNCHANGED <<nextPeerId, xferVars, auxVars>>

\* A `from` value a client may put in its own message: another peer's id.
Spoofed(peerId) == (peerId % MaxPeers) + 1

\* handleMessage, cases 'offer' / 'answer' / 'ice-candidate' / 'file-metadata'
ForwardReq(peerId) ==
  /\ before' = Snapshot(peers, rooms)
  /\ CanRequest(peerId)
  /\ \E kind \in ForwardKinds, to \in PeerIds \cup {NoTo}, from \in {0, Spoofed(peerId)} :
       LET message == [type |-> kind, to |-> to, from |-> from]
       IN /\ sent' = forwardToRoom(peers, rooms, peerId, message)
          /\ lastOp' = Op("forward", peerId, peers[peerId].roomId, message)
  /\ UNCHANGED <<peers, rooms, nextPeerId, xferVars, auxVars>>

\* The two malformed requests: data JSON.parse rejects, and a parsed message
\* whose type is none of handleMessage's cases.
MalformedKinds == {"unparsable", "unknown-type"}

\* ws.on('message') on a malformed request: the catch block, or the default
\* case of handleMessage; both only write to the console.
MalformedReq(peerId) ==
  /\ before' = Snapshot(peers, rooms)
  /\ CanRequest(peerId)
  /\ \E kind \in MalformedKinds :
       /\ sent' = EmptyBag
       /\ lastOp' = Op("malformed", peerId, peers[peerId].roomId,
                       [type |-> kind, to |-> NoTo, from |-> 0])
  /\ UNCHANGED <<peers, rooms, nextPeerId, xferVars, auxVars>>

\* ------------------------------------------------------- transfer: values
Bytes == 0..MaxByte

\* Every file of at most MaxFileLen bytes.
Files == UNION { [1..n -> Bytes] : n \in 0..MaxFileLen }

Min(a, b) == IF a < b THEN a ELSE b

\* Faulty variant of FileSlice: every slice is taken from the start of the file.
FileSlice_FromStart(f, start, end) == SubSeq(f, 1, Min(end - start, Len(f)))

\* Faulty variant of FileSlice: every slice but the first starts one byte early.
FileSlice_Overlap(f, start, end) ==
  SubSeq(f, IF start > 0 THEN start ELSE 1, Min(end, Len(f)))

\* Blob.slice(start, end): the bytes at offsets start .. end-1, end clamped.
FileSlice(f, start, end) == SubSeq(f, start + 1, Min(end, Len(f)))

\* JSON.stringify(obj) handed to send: a text message; JSON.parse reads .data.
Text(obj) == [kind |-> "string", data |-> obj]

\* An ArrayBuffer handed to send: a binary message.
Binary(bytes) == [kind |-> "binary", data |-> bytes]

\* Bytes a message adds to bufferedAmount (a control message counts as one).
ByteLength(m) == IF m.kind = "binary" THEN Len(m.data) ELSE 1

\* dataChannel.bufferedAmount: the bytes queued and not yet transmitted.
RECURSIVE bufferedAmount(_)
bufferedAmount(q) == IF q = <<>> THEN 0 ELSE ByteLength(Head(q)) + bufferedAmount(Tail(q))

\* new Blob(chunks, {type}): the chunks' bytes, concatenated in order.
RECURSIVE Concat(_)
Concat(chunks) == IF chunks = <<>> THEN <<>> ELSE Head(chunks) \o Concat(Tail(chunks))

Blob(chunks, type) == [bytes |-> Concat(chunks), type |-> type]

\* (n / d) * 100 in whole percents; 0 / 0 is NaN.
NaN == -1
Percent(n, d) == IF d = 0 THEN NaN ELSE (n * 100) \div d

\* Math.min(p, 100): NaN stays NaN.
ClampProgress(p) == IF p = NaN THEN NaN ELSE Min(p, 100)

\* Length of a file id and of the prefix of a data frame.
ID_LEN == 36

\* generateFileId: 'xxxxxxxx-xxxx-4xxx-yxxx-xxxxxxxxxxxx' with a random hex
\* digit per x (and 8..b per y), as character codes; r[i] is the draw at i.
generateFileId(r) ==
  [i \in 1..ID_LEN |->
     IF i \in {9, 14, 19, 24} THEN 45
     ELSE IF i = 15 THEN 52
     ELSE IF i = 20 THEN 56 + (r[i] % 2)
     ELSE 48 + (r[i] % 10)]

\* The draws the model enumerates: every position draws the same digit.
IdDraws == { [i \in 1..ID_LEN |-> k] : k \in 0..(NumFileIds - 1) }

\* The file's metadata as TransferView sends it.
ViewMetadata == [name |-> "file", size |-> Len(file), type |-> "text/plain"]

IdleSender ==
  [status |-> "CONNECTED", offset |-> 0, bytesTransferred |-> 0, progress |-> 0,
   pc |-> "idle", buffer |-> <<>>, sentAt |-> <<>>, fileId |-> <<>>,
   sendFailed |-> FALSE]

\* TransferView's receiving state / NexusDropClient's receiving state.
IdleViewReceiver ==
  [status |-> "CONNECTED", meta |-> <<>>, handlerMeta |-> <<>>, chunks |-> <<>>,
   bytes |-> 0, progress |-> 0, artifact |-> <<>>]

IdleClientReceiver ==
  [receivingFiles |-> <<>>, received |-> <<>>, reported |-> <<>>]

\* The messages a handler appended to the channel's queue q, giving q1.
Appended(q, q1) == SubSeq(q1, Len(q) + 1, Len(q1))

\* ---------------------------------------------- TransferView: the sender
\* Faulty variant of processChunkSent: the end-of-file message is never sent.
processChunkSent_NoEof(sd, q, byteLength) ==
  LET offset == sd.offset + byteLength
      progress == ClampProgress(Percent(offset, Len(file)))
      sd1 == [sd EXCEPT !.offset = offset,
                        !.bytesTransferred = sd.bytesTransferred + byteLength,
                        !.progress = progress]
  IN IF offset < Len(file)
     THEN [sender |-> [sd1 EXCEPT !.pc = "reading"], chan |-> q]
     ELSE [sender |-> [sd1 EXCEPT !.status = "COMPLETED", !.progress = 100, !.pc = "stopped"],
           chan |-> q]

\* processChunkSent(byteLength), after the chunk went into queue q.
processChunkSent(sd, q, byteLength) ==
  LET offset == sd.offset + byteLength
      progress == ClampProgress(Percent(offset, Len(file)))
      sd1 == [sd EXCEPT !.offset = offset,
                        !.bytesTransferred = sd.bytesTransferred + byteLength,
                        !.progress = progress]
  IN IF offset < Len(file)
     THEN [sender |-> [sd1 EXCEPT !.pc = "reading"], chan |-> q]
     ELSE [sender |-> [sd1 EXCEPT !.status = "COMPLETED", !.progress = 100, !.pc = "stopped"],
           chan |-> Append(q, Text([type |-> "EOF"]))]

\* readSlice(o), with `offset` the sender's running offset: the next slice
\* the FileReader loads.
readSlice(offset, o) == FileSlice(file, offset, o + CHUNK_SIZE)

\* startSending: metadata first, then the first read.
ViewStartSending ==
  /\ impl = "TransferView"
  /\ sender.pc = "idle" /\ sender.status = "CONNECTED"
  /\ IF chanOpen
     THEN /\ chan' = Append(chan, Text([type |-> "METADATA", payload |-> ViewMetadata]))
          /\ sender' = [sender EXCEPT !.status = "TRANSFERRING", !.progress = 0,
                                      !.bytesTransferred = 0, !.pc = "reading"]
     ELSE /\ chan' = chan
          /\ sender' = [sender EXCEPT !.status = "ERROR", !.progress = 0, !.pc = "stopped",
                                      !.sendFailed = TRUE]
  /\ wire' = wire \o Appended(chan, chan')
  /\ UNCHANGED <<impl, file, chanOpen, receiver, regVars, auxVars>>

\* reader.onload: send now, or defer by 100 ms when bufferedAmount is high.
ViewOnLoad ==
  /\ impl = "TransferView"
  /\ sender.pc = "reading"
  /\ LET buffer == readSlice(sender.offset, sender.offset)
     IN IF bufferedAmount(chan) > HIGH_WATER_MARK
        THEN /\ sender' = [sender EXCEPT !.pc = "deferred", !.buffer = buffer]
             /\ chan' = chan
        ELSE IF chanOpen
        THEN LET r == processChunkSent([sender EXCEPT !.sentAt = <<bufferedAmount(chan)>>],
                                       Append(chan, Binary(buffer)), Len(buffer))
             IN sender' = r.sender /\ chan' = r.chan
        ELSE /\ sender' = [sender EXCEPT !.status = "ERROR", !.pc = "stopped",
                                         !.sendFailed = TRUE]
             /\ chan' = chan
  /\ wire' = wire \o Appended(chan, chan')
  /\ UNCHANGED <<impl, file, chanOpen, receiver, regVars, auxVars>>

\* The setTimeout callback of the deferred branch.
ViewDeferredSend ==
  /\ impl = "TransferView"
  /\ sender.pc = "deferred"
  /\ IF chanOpen
     THEN LET r == processChunkSent([sender EXCEPT !.sentAt = <<bufferedAmount(chan)>>, !.buffer = <<>>],
                                    Append(chan, Binary(sender.buffer)), Len(sender.buffer))
          IN sender' = r.sender /\ chan' = r.chan
     ELSE /\ sender' = [sender EXCEPT !.pc = "stopped", !.buffer = <<>>,
                                      !.sendFailed = TRUE]
          /\ chan' = chan
  /\ wire' = wire \o Appended(chan, chan')
  /\ UNCHANGED <<impl, file, chanOpen, receiver, regVars, auxVars>>

\* -------------------------------------------- TransferView: the receiver
\* dataChannel.onmessage
ViewOnMessage(rc, m) ==
  IF m.kind = "string"
  THEN IF m.data.type = "METADATA"
       THEN [rc EXCEPT !.meta = <<m.data.payload>>, !.status = "TRANSFERRING", !.bytes = 0]
       ELSE IF m.data.type = "EOF"
       THEN [rc EXCEPT !.status = "COMPLETED", !.progress = 100]
       ELSE rc
  ELSE LET bytes == rc.bytes + Len(m.data)
           rc1 == [rc EXCEPT !.chunks = Append(rc.chunks, m.data), !.bytes = bytes]
       IN IF rc.handlerMeta # <<>>
          THEN [rc1 EXCEPT !.progress = Percent(bytes, rc.handlerMeta[1].size)]
          ELSE rc1

\* The receiver effect runs again after receivedFileMeta changed: the
\* handler installed from now on sees the new metadata.
ViewRebindHandler ==
  /\ impl = "TransferView"
  /\ receiver.handlerMeta # receiver.meta
  /\ receiver' = [receiver EXCEPT !.handlerMeta = receiver.meta]
  /\ UNCHANGED <<impl, file, chan, chanOpen, wire, sender, regVars, auxVars>>

\* The reassemble effect.
ViewReassemble ==
  /\ impl = "TransferView"
  /\ receiver.status = "COMPLETED"
  /\ Len(receiver.chunks) > 0
  /\ receiver.meta # <<>>
  /\ receiver.artifact # <<Blob(receiver.chunks, receiver.meta[1].type)>>
  /\ receiver' = [receiver EXCEPT !.artifact = <<Blob(receiver.chunks, receiver.meta[1].type)>>]
  /\ UNCHANGED <<impl, file, chan, chanOpen, wire, sender, regVars, auxVars>>

\* ------------------------------------------- NexusDropClient: the sender
ClientFileStart(fileId) ==
  [type |-> "file-start", fileId |-> fileId, name |-> "file",
   size |-> Len(file), mimeType |-> "text/plain"]

\* sendFile up to the first read; `channels` is the open channel, if any.
ClientSendFile ==
  /\ impl = "NexusDropClient"
  /\ sender.pc = "idle"
  /\ \E r \in IdDraws :
       LET fileId == generateFileId(r)
       IN IF chanOpen
          THEN /\ chan' = Append(chan, Text(ClientFileStart(fileId)))
               /\ sender' = [sender EXCEPT !.status = "SENDING", !.fileId = fileId,
                                           !.pc = "reading"]
          ELSE /\ chan' = chan
               /\ sender' = [sender EXCEPT !.status = "ERROR", !.pc = "stopped",
                                           !.sendFailed = TRUE]
  /\ wire' = wire \o Appended(chan, chan')
  /\ UNCHANGED <<impl, file, chanOpen, receiver, regVars, auxVars>>

\* fileReader.onload: frame the chunk, send it, schedule the next or finish.
ClientOnLoad ==
  /\ impl = "NexusDropClient"
  /\ sender.pc = "reading"
  /\ LET chunkData == FileSlice(file, sender.offset, sender.offset + CHUNK_SIZE)
         combined == sender.fileId \o chunkData
         q1 == IF chanOpen THEN Append(chan, Binary(combined)) ELSE chan
         offset == sender.offset + Len(chunkData)
         sd1 == [sender EXCEPT !.offset = offset, !.bytesTransferred = offset,
                               !.sentAt = IF chanOpen THEN <<bufferedAmount(chan)>>
                                                      ELSE sender.sentAt,
                               !.sendFailed = sender.sendFailed \/ ~chanOpen]
     IN IF offset < Len(file)
        THEN /\ sender' = [sd1 EXCEPT !.pc = "scheduled"]
             /\ chan' = q1
        ELSE /\ sender' = [sd1 EXCEPT !.status = "SENT", !.pc = "stopped"]
             /\ chan' = IF chanOpen
                        THEN Append(q1, Text([type |-> "file-end", fileId |-> sender.fileId]))
                        ELSE q1
  /\ wire' = wire \o Appended(chan, chan')
  /\ UNCHANGED <<impl, file, chanOpen, receiver, regVars, auxVars>>

\* setTimeout(sendNextChunk, 0)
ClientSendNextChunk ==
  /\ impl = "NexusDropClient"
  /\ sender.pc = "scheduled"
  /\ sender' = [sender EXCEPT !.pc = "reading"]
  /\ UNCHANGED <<impl, file, chan, chanOpen, wire, receiver, regVars, auxVars>>

\* ----------------------------------------- NexusDropClient: the receiver
assembleFile(rc, fileId) ==
  IF fileId \notin DOMAIN rc.receivingFiles
  THEN rc
  ELSE LET fileInfo == rc.receivingFiles[fileId]
       IN [rc EXCEPT !.receivingFiles = MapDelete(rc.receivingFiles, fileId),
                     !.received = Append(rc.received,
                                    [name |-> fileInfo.name, size |-> fileInfo.size,
                                     mimeType |-> fileInfo.mimeType,
                                     blob |-> Blob(fileInfo.chunks, fileInfo.mimeType)])]

\* Faulty variant of handleDataChannelMessage: a data frame is appended to
\* every open session, whatever its prefix.
handleDataChannelMessage_AppendsToAll(rc, m) ==
  IF m.kind = "string"
  THEN IF m.data.type = "file-start"
       THEN [rc EXCEPT !.receivingFiles =
               MapSet(rc.receivingFiles, m.data.fileId,
                      [name |-> m.data.name, size |-> m.data.size, mimeType |-> m.data.mimeType,
                       chunks |-> <<>>, receivedSize |-> 0])]
       ELSE IF m.data.type = "file-end"
       THEN assembleFile(rc, m.data.fileId)
       ELSE rc
  ELSE IF Len(m.data) < ID_LEN
  THEN rc
  ELSE LET chunkData == SubSeq(m.data, ID_LEN + 1, Len(m.data))
       IN [rc EXCEPT !.receivingFiles =
             [id \in DOMAIN rc.receivingFiles |->
                [rc.receivingFiles[id] EXCEPT
                   !.chunks = Append(rc.receivingFiles[id].chunks, chunkData),
                   !.receivedSize = rc.receivingFiles[id].receivedSize + Len(chunkData)]]]

handleDataChannelMessage(rc, m) ==
  IF m.kind = "string"
  THEN IF m.data.type = "file-start"
       THEN [rc EXCEPT !.receivingFiles =
               MapSet(rc.receivingFiles, m.data.fileId,
                      [name |-> m.data.name, size |-> m.data.size, mimeType |-> m.data.mimeType,
                       chunks |-> <<>>, receivedSize |-> 0])]
       ELSE IF m.data.type = "file-end"
       THEN assembleFile(rc, m.data.fileId)
       ELSE rc
  ELSE IF Len(m.data) < ID_LEN
  THEN rc
  ELSE LET fileId == SubSeq(m.data, 1, ID_LEN)
           chunkData == SubSeq(m.data, ID_LEN + 1, Len(m.data))
       IN IF fileId \in DOMAIN rc.receivingFiles
          THEN LET fileInfo == rc.receivingFiles[fileId]
                   receivedSize == fileInfo.receivedSize + Len(chunkData)
               IN [rc EXCEPT !.receivingFiles[fileId].chunks = Append(fileInfo.chunks, chunkData),
                             !.receivingFiles[fileId].receivedSize = receivedSize,
                             !.reported = <<[fileId |-> fileId, received |-> receivedSize,
                                             size |-> fileInfo.size]>>]
          ELSE rc

\* ------------------------------------------------- the data channel
\* The oldest queued message reaches the remote side's onmessage.
Deliver ==
  /\ chan # <<>>
  /\ receiver' = IF impl = "TransferView" THEN ViewOnMessage(receiver, Head(chan))
                                          ELSE handleDataChannelMessage(receiver, Head(chan))
  /\ chan' = Tail(chan)
  /\ UNCHANGED <<impl, file, chanOpen, wire, sender, regVars, auxVars>>

\* The channel closes; what was still queued is lost. The receiving side's
\* onclose handlers (App.tsx setupDataChannel, NexusDropClient
\* setupDataChannel) write a log line or a status text and leave the
\* receiving state as it is.
ChannelClose ==
  /\ chanOpen
  /\ chanOpen' = FALSE
  /\ chan' = <<>>
  /\ UNCHANGED <<impl, file, wire, sender, receiver, regVars, auxVars>>

\* No reset so far.
NoCancel == [by |-> "none", offset |-> 0, wireLen |-> 0, status |-> "", received |-> 0]

\* No sendFile over several channels runs.
NoFanout == <<>>

\* No negotiation runs.
NoNegotiation ==
  nodes = <<>> /\ inbox = <<>> /\ toServer = <<>> /\ log = EmptyBag /\ fan = NoFanout

NoTransfer ==
  /\ cancel = NoCancel
  /\ NoNegotiation
  /\ impl = "none"
  /\ file = <<>>
  /\ chan = <<>>
  /\ chanOpen = FALSE
  /\ wire = <<>>
  /\ sender = IdleSender
  /\ receiver = IdleViewReceiver

TransferInit ==
  /\ RegInit
  /\ cancel = NoCancel
  /\ NoNegotiation
  /\ impl \in {"TransferView", "NexusDropClient"}
  /\ file \in Files
  /\ chan = <<>>
  /\ chanOpen = TRUE
  /\ wire = <<>>
  /\ sender = IdleSender
  /\ receiver = IF impl = "TransferView" THEN IdleViewReceiver ELSE IdleClientReceiver

TransferNext ==
  \/ ViewStartSending
  \/ ViewOnLoad
  \/ ViewDeferredSend
  \/ ViewRebindHandler
  \/ ViewReassemble
  \/ ClientSendFile
  \/ ClientOnLoad
  \/ ClientSendNextChunk
  \/ Deliver
  \/ ChannelClose

TransferSpec == TransferInit /\ [][TransferNext]_vars

\* The timers (auto-start, the 100 ms deferral, setTimeout 0), the
\* FileReader's load events and the channel's message events all fire.
TransferFairness ==
  /\ WF_vars(ViewStartSending)
  /\ WF_vars(ViewOnLoad)
  /\ WF_vars(ViewDeferredSend)
  /\ WF_vars(ViewRebindHandler)
  /\ WF_vars(ViewReassemble)
  /\ WF_vars(ClientOnLoad)
  /\ WF_vars(ClientSendNextChunk)
  /\ WF_vars(Deliver)

TransferFairSpec == TransferInit /\ [][TransferNext]_vars /\ TransferFairness

\* ------------------------------------------------ user-initiated reset
\* What the resetting side had sent and exposed when it reset.
Cancelled(side) ==
  [by |-> side, offset |-> sender.offset, wireLen |-> Len(wire), status |-> sender.status,
   received |-> IF impl = "NexusDropClient" THEN Len(receiver.received) ELSE 0]

\* App.resetApp at the sending or at the receiving tab: the peer connection
\* is closed (and its data channel with it), the file is dropped and the
\* view returns to LANDING, which unmounts TransferView: its state is gone
\* and its auto-start timer is cleared, FileReader loads and the 100 ms
\* deferral already under way still run.
resetApp ==
  /\ impl = "TransferView"
  /\ cancel.by = "none"
  /\ \E side \in {"sender", "receiver"} :
       /\ cancel' = Cancelled(side)
       /\ sender' = IF side = "sender" /\ sender.pc = "idle"
                    THEN [sender EXCEPT !.pc = "stopped"] ELSE sender
       /\ receiver' = IF side = "receiver" THEN IdleViewReceiver ELSE receiver
  /\ chanOpen' = FALSE
  /\ chan' = <<>>
  /\ UNCHANGED <<impl, file, wire, regVars, negVars, fan>>

\* NexusDropClient.cleanup at the sending or at the receiving client: the
\* peer connections are closed and the maps cleared; sendFile's FileReader
\* and its scheduled sendNextChunk are not touched.
cleanup ==
  /\ impl = "NexusDropClient"
  /\ cancel.by = "none"
  /\ \E side \in {"sender", "receiver"} :
       /\ cancel' = Cancelled(side)
       /\ receiver' = IF side = "receiver"
                      THEN [receiver EXCEPT !.receivingFiles = <<>>] ELSE receiver
  /\ chanOpen' = FALSE
  /\ chan' = <<>>
  /\ UNCHANGED <<impl, file, wire, sender, regVars, negVars, fan>>

CancelNext == TransferNext \/ resetApp \/ cleanup

CancelSpec == TransferInit /\ [][CancelNext]_vars

\* ------------------------------------------------------------ negotiation
NegPeers == 1..MaxNegPeers

\* One entry of the negotiation record.
Event(ev, by, to, on) == [ev |-> ev, by |-> by, to |-> to, on |-> on]

\* A new RTCPeerConnection: whether this side created the data channel,
\* whether a local / a remote description is set, signalingState,
\* connectionState, the roomId its onicecandidate closure addresses
\* candidates to (browser application only), and how many candidates it has
\* reported.
NewConnection(dataChannel, iceRoomId) ==
  [dataChannel |-> dataChannel, local |-> FALSE, remote |-> FALSE,
   signalingState |-> "stable", connectionState |-> "new",
   iceRoomId |-> iceRoomId, emitted |-> 0]

\* createOffer + setLocalDescription(offer)
LocalOffer(pc) == [pc EXCEPT !.local = TRUE, !.signalingState = "have-local-offer"]

\* setRemoteDescription(offer) + createAnswer + setLocalDescription(answer)
AnswerOffer(pc) == [pc EXCEPT !.local = TRUE, !.remote = TRUE, !.signalingState = "stable"]

\* Faulty variant of AcceptsAnswer: an answer is applied in any state.
AcceptsAnswer_Always(pc) == TRUE

\* setRemoteDescription(answer) succeeds only while a local offer is
\* pending; otherwise the promise is rejected and nothing is applied.
AcceptsAnswer(pc) == pc.signalingState = "have-local-offer"

\* setRemoteDescription(answer), accepted
ApplyAnswer(pc) == [pc EXCEPT !.remote = TRUE, !.signalingState = "stable"]

\* -------------------------------------- negotiation: the browser application
\* SignalingService.roomId = null, and the empty string of the React states
\* roomId and joinCode.
AppNoRoom == 0

\* SignalingService.createRoom draws a 6-digit number.
AppRoomIds == { 100000 + k : k \in 0..(NumCodes - 1) }

\* A tab before startHosting / joinSession. roomId is SignalingService's;
\* stateRoomId and joinCode are the React states; handlerRole is the role
\* the installed signaling.onMessage closure sees (the effect that installs
\* it runs after the render that follows setRole); done: resetApp was used.
IdleTab ==
  [role |-> "none", handlerRole |-> "none", roomId |-> AppNoRoom,
   stateRoomId |-> AppNoRoom, joinCode |-> AppNoRoom, pc |-> <<>>, done |-> FALSE]

\* setupPeerConnection, run from a closure in which the states role, roomId
\* and joinCode have the given values: only a SENDER closure creates the
\* data channel, and onicecandidate addresses to `roomId || joinCode`.
setupPeerConnection(role, roomId, joinCode) ==
  <<NewConnection(role = "SENDER", IF roomId # AppNoRoom THEN roomId ELSE joinCode)>>

\* The data channel setupPeerConnection created, as an event.
ChannelCreated(self, role) ==
  IF role = "SENDER" THEN SetToBag({Event("datachannel", self, 0, "setup")}) ELSE EmptyBag

\* BroadcastChannel.postMessage: the messages reach every other tab.
postMessage(ib, self, msgs) ==
  [t \in DOMAIN ib |-> IF t = self THEN ib[t] ELSE ib[t] \o msgs]

\* startHosting: setRole and setRoomId take effect with the next render;
\* setupPeerConnection runs at once, in the closure of the current render.
startHosting(t) ==
  /\ impl = "App"
  /\ nodes[t].role = "none" /\ ~nodes[t].done
  /\ \E newRoomId \in AppRoomIds :
       nodes' = [nodes EXCEPT ![t] =
                   [@ EXCEPT !.role = "SENDER", !.roomId = newRoomId,
                             !.stateRoomId = newRoomId,
                             !.pc = setupPeerConnection(nodes[t].role, nodes[t].stateRoomId,
                                                        nodes[t].joinCode)]]
  /\ log' = log (+) ChannelCreated(t, nodes[t].role)
  /\ UNCHANGED <<inbox, toServer, cancel, fan, regVars, xferVars>>

\* joinSession: as startHosting, then signaling.joinRoom posts JOIN.
joinSession(t) ==
  /\ impl = "App"
  /\ nodes[t].role = "none" /\ ~nodes[t].done
  /\ \E joinCode \in AppRoomIds :
       /\ nodes' = [nodes EXCEPT ![t] =
                      [@ EXCEPT !.role = "RECEIVER", !.roomId = joinCode,
                                !.stateRoomId = joinCode, !.joinCode = joinCode,
                                !.pc = setupPeerConnection(nodes[t].role, nodes[t].stateRoomId,
                                                           joinCode)]]
       /\ inbox' = postMessage(inbox, t, <<[type |-> "JOIN", roomId |-> joinCode, src |-> t]>>)
  /\ log' = log (+) ChannelCreated(t, nodes[t].role)
  /\ UNCHANGED <<toServer, cancel, fan, regVars, xferVars>>

\* The effect with dependency [role] installs the handler of the new render.
AppRebindHandler(t) ==
  /\ impl = "App"
  /\ nodes[t].handlerRole # nodes[t].role
  /\ nodes' = [nodes EXCEPT ![t].handlerRole = nodes[t].role]
  /\ UNCHANGED <<inbox, toServer, log, cancel, fan, regVars, xferVars>>

\* signaling.onMessage(msg) in tab `self`: the tab after it, the messages
\* it posts, and the events.
onMessage(tab, self, msg) ==
  LET tab1 == IF tab.pc = <<>>
              THEN [tab EXCEPT !.pc = setupPeerConnection(tab.handlerRole, tab.stateRoomId,
                                                          tab.joinCode)]
              ELSE tab
      made == IF tab.pc = <<>> THEN ChannelCreated(self, tab.handlerRole) ELSE EmptyBag
      pc   == tab1.pc[1]
  IN IF msg.type = "JOIN"
     THEN IF tab.handlerRole = "SENDER"
          THEN [tab |-> [tab1 EXCEPT !.pc = <<LocalOffer(pc)>>],
                out |-> <<[type |-> "OFFER", roomId |-> tab.stateRoomId, src |-> self]>>,
                log |-> made (+) SetToBag({Event("notice", self, msg.src, "JOIN"),
                                           Event("offer", self, msg.src, "JOIN")})]
          ELSE [tab |-> tab1, out |-> <<>>,
                log |-> made (+) SetToBag({Event("notice", self, msg.src, "JOIN")})]
     ELSE IF msg.type = "OFFER" /\ tab.handlerRole = "RECEIVER"
     THEN [tab |-> [tab1 EXCEPT !.pc = <<AnswerOffer(pc)>>],
           out |-> <<[type |-> "ANSWER", roomId |-> msg.roomId, src |-> self]>>,
           log |-> made (+) SetToBag({Event("answer", self, msg.src, "OFFER")})]
     ELSE IF msg.type = "ANSWER" /\ tab.handlerRole = "SENDER"
     THEN IF AcceptsAnswer(pc)
          THEN [tab |-> [tab1 EXCEPT !.pc = <<ApplyAnswer(pc)>>], out |-> <<>>,
                log |-> made (+) SetToBag({Event("applied", self, msg.src, "ANSWER")})]
          ELSE [tab |-> tab1, out |-> <<>>, log |-> made]
     ELSE IF msg.type = "ICE_CANDIDATE"
     THEN IF pc.remote
          THEN [tab |-> tab1, out |-> <<>>,
                log |-> made (+) SetToBag({Event("candidate-applied", self, msg.src,
                                                 "ICE_CANDIDATE")})]
          ELSE [tab |-> tab1, out |-> <<>>, log |-> made]
     ELSE [tab |-> tab1, out |-> <<>>, log |-> made]

\* SignalingService's channel.onmessage: one dispatch for a message of this
\* tab's room, and one more for a JOIN of this tab's room.
AppDeliver(t) ==
  /\ impl = "App"
  /\ inbox[t] # <<>>
  /\ LET msg    == Head(inbox[t])
         tab    == nodes[t]
         skip   == [tab |-> tab, out |-> <<>>, log |-> EmptyBag]
         r1     == IF tab.roomId # AppNoRoom /\ msg.roomId = tab.roomId
                   THEN onMessage(tab, t, msg) ELSE skip
         r2     == IF msg.type = "JOIN" /\ msg.roomId = tab.roomId
                   THEN onMessage(r1.tab, t, msg)
                   ELSE [tab |-> r1.tab, out |-> <<>>, log |-> EmptyBag]
     IN /\ nodes' = [nodes EXCEPT ![t] = r2.tab]
        /\ inbox' = postMessage([inbox EXCEPT ![t] = Tail(inbox[t])], t, r1.out \o r2.out)
        /\ log' = log (+) r1.log (+) r2.log
  /\ UNCHANGED <<toServer, cancel, fan, regVars, xferVars>>

\* pc.onicecandidate with a candidate: sent with the roomId of the closure
\* that ran setupPeerConnection.
AppIceCandidate(t) ==
  /\ impl = "App"
  /\ nodes[t].pc # <<>>
  /\ nodes[t].pc[1].local
  /\ nodes[t].pc[1].emitted < MaxCandidates
  /\ nodes' = [nodes EXCEPT ![t].pc[1].emitted = @ + 1]
  /\ inbox' = postMessage(inbox, t, <<[type |-> "ICE_CANDIDATE",
                                       roomId |-> nodes[t].pc[1].iceRoomId, src |-> t]>>)
  /\ log' = log (+) SetToBag({Event("candidate", t, 0, "onicecandidate")})
  /\ UNCHANGED <<toServer, cancel, fan, regVars, xferVars>>

\* pc.onconnectionstatechange with 'failed', on a connection whose two
\* descriptions are set: the handler logs the state and acts only on
\* 'connected'.
AppConnectionFailed(t) ==
  /\ impl = "App"
  /\ nodes[t].pc # <<>>
  /\ nodes[t].pc[1].local /\ nodes[t].pc[1].remote
  /\ nodes[t].pc[1].connectionState # "failed"
  /\ nodes' = [nodes EXCEPT ![t].pc[1].connectionState = "failed"]
  /\ UNCHANGED <<inbox, toServer, log, cancel, fan, regVars, xferVars>>

\* resetApp, as far as the negotiation goes: the connection is closed and
\* the refs are nulled, the role is null again; SignalingService.roomId and
\* the state roomId stay as they are.
AppReset(t) ==
  /\ impl = "App"
  /\ nodes[t].role # "none"
  /\ nodes' = [nodes EXCEPT ![t] = [@ EXCEPT !.role = "none", !.pc = <<>>, !.done = TRUE]]
  /\ UNCHANGED <<inbox, toServer, log, cancel, fan, regVars, xferVars>>

\* ------------------------------------------ negotiation: NexusDropClient
\* orphans: the remote peers for which a connection was replaced in
\* peerConnections without being closed.
IdleClient ==
  [asked |-> "none", roomId |-> NoRoom, pcs |-> <<>>, orphans |-> {},
   rejoined |-> FALSE, done |-> FALSE]

\* createPeerConnection(remotePeerId, isInitiator): the map entry it sets;
\* the initiator creates the data channel and the offer.
createPeerConnection(pcs, remotePeerId, isInitiator) ==
  MapSet(pcs, remotePeerId,
         IF isInitiator THEN LocalOffer(NewConnection(TRUE, 0))
                        ELSE NewConnection(FALSE, 0))

\* peers.forEach(peerId => createPeerConnection(peerId, true)): the maps.
RECURSIVE connectAll(_, _)
connectAll(pcs, S) ==
  IF S = {} THEN pcs
  ELSE LET peerId == CHOOSE x \in S : \A y \in S : x <= y
       IN connectAll(createPeerConnection(pcs, peerId, TRUE), S \ {peerId})

\* ... and the offers the initiator sends, one per listed peer.
RECURSIVE offerAll(_)
offerAll(S) ==
  IF S = {} THEN <<>>
  ELSE LET peerId == CHOOSE x \in S : \A y \in S : x <= y
       IN <<[type |-> "offer", to |-> peerId, from |-> 0]>> \o offerAll(S \ {peerId})

\* The connections createPeerConnection drops from the map still open.
Replaced(cl, S) == cl.orphans \cup (S \cap DOMAIN cl.pcs)

\* handleOffer(remotePeerId, offer)
handleOffer(cl, self, remotePeerId) ==
  [node |-> [cl EXCEPT !.pcs = [createPeerConnection(cl.pcs, remotePeerId, FALSE)
                                  EXCEPT ![remotePeerId] = AnswerOffer(@)],
                       !.orphans = Replaced(cl, {remotePeerId})],
   out  |-> <<[type |-> "answer", to |-> remotePeerId, from |-> 0]>>,
   log  |-> SetToBag({Event("answer", self, remotePeerId, "offer")})]

\* handleAnswer(remotePeerId, answer)
handleAnswer(cl, self, remotePeerId) ==
  IF remotePeerId \in DOMAIN cl.pcs /\ AcceptsAnswer(cl.pcs[remotePeerId])
  THEN [node |-> [cl EXCEPT !.pcs[remotePeerId] = ApplyAnswer(@)], out |-> <<>>,
        log  |-> SetToBag({Event("applied", self, remotePeerId, "answer")})]
  ELSE [node |-> cl, out |-> <<>>, log |-> EmptyBag]

\* handleIceCandidate(remotePeerId, candidate)
handleIceCandidate(cl, self, remotePeerId) ==
  IF remotePeerId \in DOMAIN cl.pcs /\ cl.pcs[remotePeerId].remote
  THEN [node |-> cl, out |-> <<>>,
        log  |-> SetToBag({Event("candidate-applied", self, remotePeerId, "ice-candidate")})]
  ELSE [node |-> cl, out |-> <<>>, log |-> EmptyBag]

\* handlePeerLeft(remotePeerId): the connection in the map is closed and
\* its entries deleted.
handlePeerLeft(cl, remotePeerId) == [cl EXCEPT !.pcs = MapDelete(cl.pcs, remotePeerId)]

\* Faulty variant of handleSignalingMessage: the peer already in the room
\* initiates on 'peer-joined', and the joiner waits.
handleSignalingMessage_HostInitiates(cl, self, message) ==
  IF message.type = "room-created"
  THEN [node |-> [cl EXCEPT !.roomId = message.roomId], out |-> <<>>, log |-> EmptyBag]
  ELSE IF message.type = "room-joined"
  THEN [node |-> [cl EXCEPT !.roomId = message.roomId], out |-> <<>>, log |-> EmptyBag]
  ELSE IF message.type = "peer-joined"
  THEN [node |-> [cl EXCEPT !.pcs = connectAll(cl.pcs, {message.peerId}),
                            !.orphans = Replaced(cl, {message.peerId})],
        out  |-> offerAll({message.peerId}),
        log  |-> SetToBag({Event("notice", self, message.peerId, "peer-joined"),
                           Event("datachannel", self, message.peerId, "peer-joined"),
                           Event("offer", self, message.peerId, "peer-joined")})]
  ELSE IF message.type = "peer-left"
  THEN [node |-> handlePeerLeft(cl, message.peerId), out |-> <<>>, log |-> EmptyBag]
  ELSE IF message.type = "offer"
  THEN handleOffer(cl, self, message.from)
  ELSE IF message.type = "answer"
  THEN handleAnswer(cl, self, message.from)
  ELSE IF message.type = "ice-candidate"
  THEN handleIceCandidate(cl, self, message.from)
  ELSE [node |-> cl, out |-> <<>>, log |-> EmptyBag]

\* handleSignalingMessage(message) in client `self`: the client after it,
\* what it sent to the server, and the events.
handleSignalingMessage(cl, self, message) ==
  IF message.type = "room-created"
  THEN [node |-> [cl EXCEPT !.roomId = message.roomId], out |-> <<>>, log |-> EmptyBag]
  ELSE IF message.type = "room-joined"
  THEN [node |-> [cl EXCEPT !.roomId = message.roomId,
                            !.pcs = connectAll(cl.pcs, message.peers),
                            !.orphans = Replaced(cl, message.peers)],
        out  |-> offerAll(message.peers),
        log  |-> SetToBag({Event("datachannel", self, p, "room-joined") : p \in message.peers}
                          \cup {Event("offer", self, p, "room-joined") : p \in message.peers})]
  ELSE IF message.type = "peer-joined"
  THEN [node |-> cl, out |-> <<>>,
        log  |-> SetToBag({Event("notice", self, message.peerId, "peer-joined")})]
  ELSE IF message.type = "peer-left"
  THEN [node |-> handlePeerLeft(cl, message.peerId), out |-> <<>>, log |-> EmptyBag]
  ELSE IF message.type = "offer"
  THEN handleOffer(cl, self, message.from)
  ELSE IF message.type = "answer"
  THEN handleAnswer(cl, self, message.from)
  ELSE IF message.type = "ice-candidate"
  THEN handleIceCandidate(cl, self, message.from)
  ELSE [node |-> cl, out |-> <<>>, log |-> EmptyBag]

\* NexusDropClient.createRoom
ClientCreateRoom(c) ==
  /\ impl = "NexusDropClient"
  /\ nodes[c].asked = "none" /\ ~nodes[c].done
  /\ nodes' = [nodes EXCEPT ![c].asked = "create-room"]
  /\ toServer' = [toServer EXCEPT ![c] = Append(@, [type |-> "create-room"])]
  /\ UNCHANGED <<inbox, log, cancel, fan, regVars, xferVars>>

\* NexusDropClient.joinRoom(roomId)
ClientJoinRoom(c) ==
  /\ impl = "NexusDropClient"
  /\ nodes[c].asked = "none" /\ ~nodes[c].done
  /\ \E roomId \in RoomCodes :
       toServer' = [toServer EXCEPT ![c] = Append(@, [type |-> "join-room", roomId |-> roomId])]
  /\ nodes' = [nodes EXCEPT ![c].asked = "join-room"]
  /\ UNCHANGED <<inbox, log, cancel, fan, regVars, xferVars>>

\* NexusDropClient.joinRoom(roomId) once more, by a client already in a room.
ClientRejoin(c) ==
  /\ impl = "NexusDropClient"
  /\ nodes[c].roomId # NoRoom /\ ~nodes[c].rejoined /\ ~nodes[c].done
  /\ \E roomId \in RoomCodes :
       toServer' = [toServer EXCEPT ![c] = Append(@, [type |-> "join-room", roomId |-> roomId])]
  /\ nodes' = [nodes EXCEPT ![c].rejoined = TRUE]
  /\ UNCHANGED <<inbox, log, cancel, fan, regVars, xferVars>>

\* NexusDropClient.leaveRoom: 'leave-room' is sent, then cleanup() closes the
\* connections in the map and clears the maps.
ClientLeaveRoom(c) ==
  /\ impl = "NexusDropClient"
  /\ nodes[c].asked # "none" /\ ~nodes[c].done
  /\ nodes' = [nodes EXCEPT ![c] = [@ EXCEPT !.pcs = <<>>, !.roomId = NoRoom, !.done = TRUE]]
  /\ toServer' = [toServer EXCEPT ![c] = Append(@, [type |-> "leave-room"])]
  /\ UNCHANGED <<inbox, log, cancel, fan, regVars, xferVars>>

\* pc.onicecandidate of the connection to `remote`, with a candidate.
ClientIceCandidate(c) ==
  /\ impl = "NexusDropClient"
  /\ \E remote \in DOMAIN nodes[c].pcs :
       /\ nodes[c].pcs[remote].local
       /\ nodes[c].pcs[remote].emitted < MaxCandidates
       /\ nodes' = [nodes EXCEPT ![c].pcs[remote].emitted = @ + 1]
       /\ toServer' = [toServer EXCEPT ![c] =
                         Append(@, [type |-> "ice-candidate", to |-> remote, from |-> 0])]
       /\ log' = log (+) SetToBag({Event("candidate", c, remote, "onicecandidate")})
  /\ UNCHANGED <<inbox, cancel, fan, regVars, xferVars>>

\* pc.onconnectionstatechange of the connection to `remote` with
\* 'disconnected' or 'failed': handlePeerLeft(remote).
ClientConnectionFailed(c) ==
  /\ impl = "NexusDropClient"
  /\ \E remote \in DOMAIN nodes[c].pcs :
       /\ nodes[c].pcs[remote].local /\ nodes[c].pcs[remote].remote
       /\ nodes' = [nodes EXCEPT ![c] = handlePeerLeft(nodes[c], remote)]
       /\ log' = log (+) SetToBag({Event("failed", c, remote, "onconnectionstatechange")})
  /\ UNCHANGED <<inbox, toServer, cancel, fan, regVars, xferVars>>

\* What a handler of the server wrote to the socket of client c.
Written(bag, c) ==
  IF \E e \in BagToSet(bag) : e.to = c
  THEN <<(CHOOSE e \in BagToSet(bag) : e.to = c).msg>>
  ELSE <<>>

\* The server's ws.on('message') for the oldest message of client c.
ServerHandle(c) ==
  /\ impl = "NexusDropClient"
  /\ toServer[c] # <<>>
  /\ toServer' = [toServer EXCEPT ![c] = Tail(@)]
  /\ LET message == Head(toServer[c])
     IN \E draw \in Draws :
          LET r == IF message.type = "create-room"
                   THEN createRoom(peers, rooms, c, generateRoomCode(draw))
                   ELSE IF message.type = "join-room"
                   THEN joinRoom(peers, rooms, c, message.roomId)
                   ELSE IF message.type = "leave-room"
                   THEN IF peers[c].roomId # NoRoom
                        THEN leaveRoom(peers, rooms, c, peers[c].roomId)
                        ELSE [peers |-> peers, rooms |-> rooms, sent |-> EmptyBag]
                   ELSE [peers |-> peers, rooms |-> rooms,
                         sent  |-> forwardToRoom(peers, rooms, c, message)]
          IN /\ peers' = r.peers
             /\ rooms' = r.rooms
             /\ inbox' = [n \in DOMAIN inbox |-> inbox[n] \o Written(r.sent, n)]
  /\ UNCHANGED <<nodes, log, cancel, nextPeerId, sent, lastOp, before, xferVars, fan>>

\* ws.onmessage of client c
ClientDeliver(c) ==
  /\ impl = "NexusDropClient"
  /\ inbox[c] # <<>>
  /\ LET r == handleSignalingMessage(nodes[c], c, Head(inbox[c]))
     IN /\ nodes' = [nodes EXCEPT ![c] = r.node]
        /\ toServer' = [toServer EXCEPT ![c] = @ \o r.out]
        /\ log' = log (+) r.log
  /\ inbox' = [inbox EXCEPT ![c] = Tail(@)]
  /\ UNCHANGED <<cancel, fan, regVars, xferVars>>

\* N tabs are open / N clients are connected and told their ids; nobody has
\* created or joined a room.
NegotiationStart(N) ==
  /\ impl \in {"App", "NexusDropClient"}
  /\ nodes = [n \in 1..N |-> IF impl = "App" THEN IdleTab ELSE IdleClient]
  /\ inbox = [n \in 1..N |-> <<>>]
  /\ toServer = [n \in 1..N |-> <<>>]
  /\ log = EmptyBag
  /\ peers = IF impl = "App" THEN <<>>
             ELSE [p \in 1..N |-> [roomId |-> NoRoom, open |-> TRUE]]
  /\ rooms = <<>>
  /\ nextPeerId = N + 1
  /\ sent = EmptyBag
  /\ lastOp = Op("idle", 0, NoRoom, NoMsg)
  /\ before = Snapshot(<<>>, <<>>)
  /\ cancel = NoCancel
  /\ fan = NoFanout
  /\ file = <<>>
  /\ chan = <<>>
  /\ chanOpen = FALSE
  /\ wire = <<>>
  /\ sender = IdleSender
  /\ receiver = IdleViewReceiver

NegotiationInit == NegotiationStart(MaxNegPeers)

NegotiationNext ==
  \E n \in DOMAIN nodes :
    \/ startHosting(n)
    \/ joinSession(n)
    \/ AppRebindHandler(n)
    \/ AppDeliver(n)
    \/ ClientCreateRoom(n)
    \/ ClientJoinRoom(n)
    \/ ServerHandle(n)
    \/ ClientDeliver(n)

NegotiationSpec == NegotiationInit /\ [][NegotiationNext]_vars

\* ---------------------------- negotiation with candidates, failure, teardown
\* One pair of peers.
LifecycleInit == NegotiationStart(2)

LifecycleNext ==
  \E n \in DOMAIN nodes :
    \/ startHosting(n)
    \/ joinSession(n)
    \/ AppRebindHandler(n)
    \/ AppDeliver(n)
    \/ AppIceCandidate(n)
    \/ AppConnectionFailed(n)
    \/ AppReset(n)
    \/ ClientCreateRoom(n)
    \/ ClientJoinRoom(n)
    \/ ClientLeaveRoom(n)
    \/ ClientIceCandidate(n)
    \/ ClientConnectionFailed(n)
    \/ ServerHandle(n)
    \/ ClientDeliver(n)

LifecycleSpec == LifecycleInit /\ [][LifecycleNext]_vars

\* ------------------- negotiation with a repeated joinRoom and with failures
RejoinNext ==
  \/ NegotiationNext
  \/ \E n \in DOMAIN nodes :
       \/ ClientRejoin(n)
       \/ ClientConnectionFailed(n)

RejoinSpec == LifecycleInit /\ [][RejoinNext]_vars

\* ------------------------------------- the receiver under arbitrary traffic
\* The remote end of the channel need not be the sender above: the handlers
\* take whatever message event arrives.
FileIds == { generateFileId(r) : r \in IdDraws }

RcvPayloads == UNION { [1..n -> Bytes] : n \in 0..MaxRcvPayload }

RECURSIVE SumLen(_)
SumLen(chunks) == IF chunks = <<>> THEN 0 ELSE Len(Head(chunks)) + SumLen(Tail(chunks))

\* The fragments the receiver holds, over all its open sessions.
RECURSIVE StoredIn(_, _)
StoredIn(rf, ids) ==
  IF ids = {} THEN 0
  ELSE LET id == CHOOSE x \in ids : TRUE
       IN Len(rf[id].chunks) + StoredIn(rf, ids \ {id})

StoredChunks ==
  IF impl = "TransferView" THEN Len(receiver.chunks)
  ELSE StoredIn(receiver.receivingFiles, DOMAIN receiver.receivingFiles)

\* A metadata control message arrives.
ArriveMetadata ==
  /\ chanOpen /\ chan = <<>>
  /\ \E n \in 0..MaxRcvSize, id \in FileIds :
       chan' = IF impl = "TransferView"
               THEN <<Text([type |-> "METADATA",
                            payload |-> [name |-> "file", size |-> n, type |-> "text/plain"]])>>
               ELSE <<Text([type |-> "file-start", fileId |-> id, name |-> "file",
                            size |-> n, mimeType |-> "text/plain"])>>
  /\ UNCHANGED <<impl, file, chanOpen, wire, sender, receiver, regVars, auxVars>>

\* A binary message arrives: for NexusDropClient a framed one, or one too
\* short to hold a file id.
ArriveData ==
  /\ chanOpen /\ chan = <<>>
  /\ StoredChunks < MaxRcvChunks
  /\ \E b \in RcvPayloads, id \in FileIds, framed \in BOOLEAN :
       chan' = IF impl = "TransferView" \/ ~framed THEN <<Binary(b)>>
                                                  ELSE <<Binary(id \o b)>>
  /\ UNCHANGED <<impl, file, chanOpen, wire, sender, receiver, regVars, auxVars>>

\* An end-of-file control message arrives.
ArriveEof ==
  /\ chanOpen /\ chan = <<>>
  /\ impl = "NexusDropClient" => Len(receiver.received) < MaxRcvFiles
  /\ \E id \in FileIds :
       chan' = IF impl = "TransferView" THEN <<Text([type |-> "EOF"])>>
                                        ELSE <<Text([type |-> "file-end", fileId |-> id])>>
  /\ UNCHANGED <<impl, file, chanOpen, wire, sender, receiver, regVars, auxVars>>

ReceiverNext ==
  \/ ArriveMetadata
  \/ ArriveData
  \/ ArriveEof
  \/ Deliver
  \/ ViewRebindHandler
  \/ ViewReassemble
  \/ ChannelClose

ReceiverInit == TransferInit /\ file = <<>>

ReceiverSpec == ReceiverInit /\ [][ReceiverNext]_vars

\* --------------------------------------- NexusDropClient: sendFile, fan-out
FanPeers == 1..MaxFanPeers

\* dataChannels holds a channel per remote peer, none of them open yet;
\* out[p] is what was handed to channel.send of the channel to p, in order;
\* channels is sendFile's array of that name; errors counts handleError.
IdleFanout ==
  [readyState |-> [p \in FanPeers |-> "connecting"],
   out        |-> [p \in FanPeers |-> <<>>],
   channels   |-> {},
   fileId     |-> <<>>,
   offset     |-> 0,
   pc         |-> "idle",
   sends      |-> 0,
   errors     |-> 0]

\* Array.from(this.dataChannels.values()).filter(ch => ch.readyState === 'open')
OpenChannels(f) == { p \in FanPeers : f.readyState[p] = "open" }

\* Faulty variant of SendTargets: every channel open now is sent to.
SendTargets_AllOpen(f) == OpenChannels(f)

\* channels.forEach(channel => { if (channel.readyState === 'open') ... })
SendTargets(f) == { p \in f.channels : f.readyState[p] = "open" }

\* channel.send(m) on each of the channels to S
SendTo(out, S, m) == [p \in DOMAIN out |-> IF p \in S THEN Append(out[p], m) ELSE out[p]]

\* sendFile up to the first read
FanSendFile ==
  /\ impl = "NexusDropClient"
  /\ fan # NoFanout
  /\ fan.pc \in {"idle", "stopped"}
  /\ fan.sends < MaxSends
  /\ \E r \in IdDraws :
       LET fileId   == generateFileId(r)
           channels == OpenChannels(fan)
       IN IF channels = {}
          THEN fan' = [fan EXCEPT !.errors = @ + 1, !.sends = @ + 1, !.pc = "stopped"]
          ELSE fan' = [fan EXCEPT !.channels = channels, !.fileId = fileId, !.offset = 0,
                                  !.sends = @ + 1, !.pc = "reading",
                                  !.out = SendTo(fan.out, channels,
                                                 Text(ClientFileStart(fileId)))]
  /\ UNCHANGED <<regVars, xferVars, cancel, negVars>>

\* fileReader.onload
FanOnLoad ==
  /\ impl = "NexusDropClient"
  /\ fan # NoFanout
  /\ fan.pc = "reading"
  /\ LET chunkData == FileSlice(file, fan.offset, fan.offset + CHUNK_SIZE)
         combined  == fan.fileId \o chunkData
         out1      == SendTo(fan.out, SendTargets(fan), Binary(combined))
         offset    == fan.offset + Len(chunkData)
     IN IF offset < Len(file)
        THEN fan' = [fan EXCEPT !.out = out1, !.offset = offset, !.pc = "scheduled"]
        ELSE fan' = [fan EXCEPT !.offset = offset, !.pc = "stopped",
                                !.out = SendTo(out1, SendTargets(fan),
                                               Text([type |-> "file-end",
                                                     fileId |-> fan.fileId]))]
  /\ UNCHANGED <<regVars, xferVars, cancel, negVars>>

\* setTimeout(sendNextChunk, 0)
FanSendNextChunk ==
  /\ impl = "NexusDropClient"
  /\ fan # NoFanout
  /\ fan.pc = "scheduled"
  /\ fan' = [fan EXCEPT !.pc = "reading"]
  /\ UNCHANGED <<regVars, xferVars, cancel, negVars>>

\* channel.onopen of the channel to p
DataChannelOpen(p) ==
  /\ fan # NoFanout
  /\ fan.readyState[p] = "connecting"
  /\ fan' = [fan EXCEPT !.readyState[p] = "open"]
  /\ UNCHANGED <<regVars, xferVars, cancel, negVars>>

\* channel.onclose of the channel to p
DataChannelClose(p) ==
  /\ fan # NoFanout
  /\ fan.readyState[p] = "open"
  /\ fan' = [fan EXCEPT !.readyState[p] = "closed"]
  /\ UNCHANGED <<regVars, xferVars, cancel, negVars>>

FanoutInit ==
  /\ RegInit
  /\ cancel = NoCancel
  /\ nodes = <<>> /\ inbox = <<>> /\ toServer = <<>> /\ log = EmptyBag
  /\ impl = "NexusDropClient"
  /\ file \in Files
  /\ chan = <<>>
  /\ chanOpen = FALSE
  /\ wire = <<>>
  /\ sender = IdleSender
  /\ receiver = IdleClientReceiver
  /\ fan = IdleFanout

FanoutNext ==
  \/ FanSendFile
  \/ FanOnLoad
  \/ FanSendNextChunk
  \/ \E p \in FanPeers : DataChannelOpen(p)
  \/ \E p \in FanPeers : DataChannelClose(p)

FanoutSpec == FanoutInit /\ [][FanoutNext]_vars

Init == RegInit /\ NoTransfer

Next ==
  \/ Flush
  \/ Connect
  \/ \E peerId \in PeerIds : SocketClosing(peerId)
  \/ \E peerId \in PeerIds : OnClose(peerId)
  \/ \E peerId \in PeerIds : CreateRoomReq(peerId)
  \/ \E peerId \in PeerIds : JoinRoomReq(peerId)
  \/ \E peerId \in PeerIds : LeaveRoomReq(peerId)
  \/ \E peerId \in PeerIds : ForwardReq(peerId)
  \/ \E peerId \in PeerIds : MalformedReq(peerId)

Spec == Init /\ [][Next]_vars

\* ---------------------------------------------- registry: reading a step
\* The messages of the last handler addressed to peer q.
MsgsTo(q) == {e \in BagToSet(sent) : e.to = q}

\* q was written exactly one message by the last handler, and it is m.
ReceivesExactly(q, m) ==
  /\ MsgsTo(q) = {[to |-> q, msg |-> m]}
  /\ CopiesIn([to |-> q, msg |-> m], sent) = 1

ReceivesNothing(q) == MsgsTo(q) = {}

Recipients == {e.to : e \in BagToSet(sent)}

\* A registered peer whose socket is OPEN when the handler runs.
ConnectedBefore(q) == q \in DOMAIN before.peers /\ before.peers[q].open

\* The room the requester is associated with when the handler runs.
RoomOfRequester ==
  IF lastOp.peer \in DOMAIN before.peers THEN before.peers[lastOp.peer].roomId ELSE NoRoom

RequesterInLiveRoom == RoomOfRequester # NoRoom /\ RoomOfRequester \in DOMAIN before.rooms

RegistryUnchanged == peers = before.peers /\ rooms = before.rooms

\* The forwarded form of the request's message.
Stamped == [lastOp.msg EXCEPT !.from = lastOp.peer]

\* sub occurs in s as a run of consecutive elements.
Contains(s, sub) ==
  \E i \in 0..(Len(s) - Len(sub)) : SubSeq(s, i + 1, i + Len(sub)) = sub

\* ------------------------------------------------------------ claims
\* C1: createRoom never assigns the code of a live room, so creating a room
\* never replaces or alters the member set of an existing room.
C1_CreateNeverCollides ==
  lastOp.op = "create-room" =>
    /\ lastOp.roomId \notin DOMAIN before.rooms
    /\ \A r \in DOMAIN before.rooms : r \in DOMAIN rooms /\ rooms[r] = before.rooms[r]

\* C4: a relayed message that names a recipient `to`: relayed from a sender
\* in a live room, exactly one copy goes to `to` if it is connected (registered,
\* socket OPEN) and no copy goes to any other peer; if `to` is not connected
\* nothing is delivered; the registry does not change.
C4_RoutingExclusivity ==
  (lastOp.op = "forward" /\ lastOp.msg.to # NoTo) =>
    /\ RegistryUnchanged
    /\ ~ConnectedBefore(lastOp.msg.to) => sent = EmptyBag
    /\ (RequesterInLiveRoom /\ ConnectedBefore(lastOp.msg.to)) =>
         /\ ReceivesExactly(lastOp.msg.to, Stamped)
         /\ Recipients = {lastOp.msg.to}

\* C4 witness: a message addressed to one of two other connected room members.
C4_Witness ==
  /\ lastOp.op = "forward" /\ lastOp.msg.to # NoTo
  /\ RequesterInLiveRoom
  /\ ReceivesExactly(lastOp.msg.to, Stamped)
  /\ \E q \in before.rooms[RoomOfRequester] \ {lastOp.peer, lastOp.msg.to} : ConnectedBefore(q)

\* C5 (as claimed): a relayed message without a recipient reaches every other
\* member of the sender's room exactly once, the sender and outsiders never.
C5_BroadcastEveryMember ==
  (lastOp.op = "forward" /\ lastOp.msg.to = NoTo /\ RequesterInLiveRoom) =>
    /\ \A q \in before.rooms[RoomOfRequester] \ {lastOp.peer} : ReceivesExactly(q, Stamped)
    /\ Recipients \subseteq before.rooms[RoomOfRequester] \ {lastOp.peer}

\* C5 (amended): a relayed message without a recipient reaches exactly once
\* every other member of the sender's room whose socket is OPEN; members whose
\* socket is not OPEN, the sender and peers outside the room receive nothing.
C5_BroadcastOpenMembers ==
  (lastOp.op = "forward" /\ lastOp.msg.to = NoTo /\ RequesterInLiveRoom) =>
    /\ \A q \in before.rooms[RoomOfRequester] \ {lastOp.peer} :
         IF ConnectedBefore(q) THEN ReceivesExactly(q, Stamped) ELSE ReceivesNothing(q)
    /\ Recipients \subseteq before.rooms[RoomOfRequester] \ {lastOp.peer}
    /\ RegistryUnchanged

\* C5 witness: a broadcast in a room of three reaches the two other members.
C5_Witness ==
  /\ lastOp.op = "forward" /\ lastOp.msg.to = NoTo /\ RequesterInLiveRoom
  /\ Cardinality(Recipients) = 2
  /\ lastOp.peer \in before.rooms[RoomOfRequester]

\* The two notifications of joinRoom.
RoomJoined(roomId, others) == [type |-> "room-joined", roomId |-> roomId, peers |-> others]
PeerJoined(peerId) == [type |-> "peer-joined", peerId |-> peerId]
PeerLeft(peerId) == [type |-> "peer-left", peerId |-> peerId]

JoinOfLiveRoom == lastOp.op = "join-room" /\ lastOp.roomId \in DOMAIN before.rooms

\* C6 (as claimed): joining a live room makes the joiner a member, sends it
\* one room-joined with the room's code and exactly the other members, and
\* sends every pre-existing member exactly one peer-joined naming the joiner.
C6_JoinNotifiesEveryMember ==
  JoinOfLiveRoom =>
    LET others == before.rooms[lastOp.roomId] \ {lastOp.peer}
    IN /\ lastOp.peer \in rooms[lastOp.roomId]
       /\ ReceivesExactly(lastOp.peer, RoomJoined(lastOp.roomId, others))
       /\ \A q \in others : ReceivesExactly(q, PeerJoined(lastOp.peer))

\* C6 (amended): as claimed, but peer-joined goes to exactly the pre-existing
\* members whose socket is OPEN; the others, and peers outside, get nothing.
C6_JoinNotifiesOpenMembers ==
  JoinOfLiveRoom =>
    LET others == before.rooms[lastOp.roomId] \ {lastOp.peer}
    IN /\ rooms[lastOp.roomId] = before.rooms[lastOp.roomId] \cup {lastOp.peer}
       /\ peers[lastOp.peer].roomId = lastOp.roomId
       /\ ReceivesExactly(lastOp.peer, RoomJoined(lastOp.roomId, others))
       /\ \A q \in others :
            IF ConnectedBefore(q) THEN ReceivesExactly(q, PeerJoined(lastOp.peer))
                                  ELSE ReceivesNothing(q)
       /\ Recipients \subseteq others \cup {lastOp.peer}

\* C6 witness: a third peer joins a room of two connected members.
C6_Witness ==
  /\ JoinOfLiveRoom
  /\ lastOp.peer \notin before.rooms[lastOp.roomId]
  /\ Cardinality({q \in before.rooms[lastOp.roomId] : ConnectedBefore(q)}) = 2
  /\ Cardinality(Recipients) = 3

\* C7: joining a code with no live room sends the requester alone an error
\* whose text contains "not found" and changes no room and no peer record.
C7_JoinUnknownRoom ==
  (lastOp.op = "join-room" /\ lastOp.roomId \notin DOMAIN before.rooms) =>
    /\ RegistryUnchanged
    /\ Recipients = {lastOp.peer}
    /\ BagCardinality(sent) = 1
    /\ \A e \in BagToSet(sent) :
         e.msg.type = "error" /\ Contains(e.msg.message, <<"not", "found">>)

\* C7 witness: the unknown code is asked for while the requester is in a
\* live room that has another member.
C7_Witness ==
  /\ lastOp.op = "join-room" /\ lastOp.roomId \notin DOMAIN before.rooms
  /\ RequesterInLiveRoom
  /\ Cardinality(before.rooms[RoomOfRequester]) >= 2
  /\ sent # EmptyBag

\* A leave-room request or a disconnect of a peer that is a member of the
\* room it is associated with.
MemberLeaves ==
  /\ lastOp.op \in {"leave-room", "close"}
  /\ RequesterInLiveRoom
  /\ lastOp.peer \in before.rooms[RoomOfRequester]

RoomSize(rs, r) == IF r \in DOMAIN rs THEN Cardinality(rs[r]) ELSE 0

\* C8 (as claimed): a member that leaves is removed from the room, its
\* association becomes null, every remaining member gets exactly one
\* peer-left naming it, it gets none, and the member count drops by one.
C8_LeaveNotifiesEveryMember ==
  MemberLeaves =>
    LET r == RoomOfRequester
        remaining == before.rooms[r] \ {lastOp.peer}
    IN /\ (r \in DOMAIN rooms => lastOp.peer \notin rooms[r])
       /\ (lastOp.peer \in DOMAIN peers => peers[lastOp.peer].roomId = NoRoom)
       /\ \A q \in remaining : ReceivesExactly(q, PeerLeft(lastOp.peer))
       /\ ReceivesNothing(lastOp.peer)
       /\ RoomSize(rooms, r) = RoomSize(before.rooms, r) - 1

\* C8 (amended): as claimed, but peer-left goes to exactly the remaining
\* members whose socket is OPEN; the others, and peers outside, get nothing.
C8_LeaveNotifiesOpenMembers ==
  MemberLeaves =>
    LET r == RoomOfRequester
        remaining == before.rooms[r] \ {lastOp.peer}
    IN /\ (r \in DOMAIN rooms => rooms[r] = remaining)
       /\ (lastOp.peer \in DOMAIN peers => peers[lastOp.peer].roomId = NoRoom)
       /\ \A q \in remaining :
            IF ConnectedBefore(q) THEN ReceivesExactly(q, PeerLeft(lastOp.peer))
                                  ELSE ReceivesNothing(q)
       /\ Recipients \subseteq remaining
       /\ RoomSize(rooms, r) = RoomSize(before.rooms, r) - 1

\* C8 witness: one of three members leaves and the two others are told.
C8_Witness ==
  /\ MemberLeaves
  /\ Cardinality(Recipients) = 2
  /\ RoomSize(rooms, RoomOfRequester) = 2

\* C9: once a peer's connection has closed it has no peer record and is in
\* no room's member set; every member of every live room is a registered peer.
C9_ClosedPeerInNoRoom ==
  /\ lastOp.op = "close" =>
       /\ lastOp.peer \notin DOMAIN peers
       /\ \A r \in DOMAIN rooms : lastOp.peer \notin rooms[r]
  /\ \A r \in DOMAIN rooms : rooms[r] \subseteq DOMAIN peers

\* C10: no live room has zero members, and the room is deleted in the step in
\* which its last member leaves or disconnects, so that a join with its code
\* finds no room.
C10_EmptyRoomDeleted ==
  /\ \A r \in DOMAIN rooms : rooms[r] # {}
  /\ lastOp.op \in {"leave-room", "close"} =>
       \A r \in DOMAIN before.rooms :
         before.rooms[r] = {lastOp.peer} => r \notin DOMAIN rooms

\* The rooms whose member set holds peer q when the handler runs.
RoomsOfBefore(q) == {r \in DOMAIN before.rooms : q \in before.rooms[r]}

\* What a leave-room request of peer q does to the registry (ps, rs).
LeaveRequest(ps, rs, q) ==
  IF ps[q].roomId # NoRoom
  THEN leaveRoom(ps, rs, q, ps[q].roomId)
  ELSE [peers |-> ps, rooms |-> rs, sent |-> EmptyBag]

\* A second leave-room right after the one just served changes nothing and
\* notifies nobody.
SecondLeaveIsNoOp ==
  lastOp.op = "leave-room" =>
    LET again == LeaveRequest(peers, rooms, lastOp.peer)
    IN again.peers = peers /\ again.rooms = rooms /\ again.sent = EmptyBag

\* A leave-room of a peer whose room association is null changes nothing and
\* notifies nobody.
LeaveWithoutAssociationIsNoOp ==
  (lastOp.op = "leave-room" /\ RoomOfRequester = NoRoom) =>
    RegistryUnchanged /\ sent = EmptyBag

\* C11: leave-room from a peer that is a member of no room changes no room
\* and no peer record and emits no message; a second leave-room in a row
\* changes nothing and emits nothing beyond the first.
C11_LeaveIdempotent ==
  /\ (lastOp.op = "leave-room" /\ RoomsOfBefore(lastOp.peer) = {}) =>
       RegistryUnchanged /\ sent = EmptyBag
  /\ SecondLeaveIsNoOp

C13_RoomlessRelayDropped ==
  (lastOp.op = "forward" /\ RoomsOfBefore(lastOp.peer) = {}) =>
    RegistryUnchanged /\ sent = EmptyBag

\* A relay from a sender whose room association is null is dropped.
RelayWithoutAssociationDropped ==
  (lastOp.op = "forward" /\ RoomOfRequester = NoRoom) =>
    RegistryUnchanged /\ sent = EmptyBag

\* C14: a malformed request (unparsable, or of an unknown kind) is answered
\* by one error message to the requester alone and changes no room and no
\* peer record.
C14_MalformedReported ==
  lastOp.op = "malformed" =>
    /\ RegistryUnchanged
    /\ Recipients = {lastOp.peer}
    /\ \A e \in BagToSet(sent) : e.msg.type = "error"

\* A malformed request changes nothing and reaches no other peer.
MalformedIgnored ==
  lastOp.op = "malformed" => RegistryUnchanged /\ Recipients \subseteq {lastOp.peer}

\* C15: a connection registers a new peer with no room association under an
\* id no registered peer has; the handler writes exactly one message, a
\* peer-id carrying that id, to the new peer, and no message was or is
\* addressed to a peer before its registration.
C15_OnConnect ==
  /\ lastOp.op = "connect" =>
       /\ lastOp.peer \notin DOMAIN before.peers
       /\ DOMAIN peers = DOMAIN before.peers \cup {lastOp.peer}
       /\ \A q \in DOMAIN before.peers : peers[q] = before.peers[q]
       /\ peers[lastOp.peer].roomId = NoRoom
       /\ rooms = before.rooms
       /\ ReceivesExactly(lastOp.peer, [type |-> "peer-id", peerId |-> lastOp.peer])
       /\ Recipients = {lastOp.peer}
  /\ lastOp.op # "connect" => Recipients \subseteq DOMAIN before.peers

\* C15 witness: a peer connects while another peer is registered and a room
\* is live.
C15_Witness ==
  /\ lastOp.op = "connect"
  /\ DOMAIN before.peers # {}
  /\ DOMAIN before.rooms # {}
  /\ sent # EmptyBag

\* C2: no data chunk is handed to channel.send while bufferedAmount exceeds
\* the high-water mark, the send made after a deferral included.
C2_NoChunkSentAboveHighWater ==
  sender.sentAt # <<>> => sender.sentAt[1] <= HIGH_WATER_MARK

\* The sender has sent everything and the channel has delivered everything.
TransferRanToCompletion ==
  /\ sender.status \in {"COMPLETED", "SENT"}
  /\ chanOpen
  /\ chan = <<>>

\* C3: when the sender runs to completion over the ordered channel, the
\* receiver completes, its fragments in receipt order are the file's bytes,
\* the artifact it assembles equals the file, and its byte count equals the
\* size declared in the metadata; for every file, the empty one included.
C3_RoundTrip ==
  /\ impl = "TransferView" =>
       /\ TransferRanToCompletion => receiver.status = "COMPLETED"
       /\ receiver.artifact # <<>> => receiver.status = "COMPLETED"
       /\ receiver.status = "COMPLETED" =>
            /\ receiver.meta # <<>>
            /\ receiver.meta[1].size = Len(file)
            /\ receiver.bytes = receiver.meta[1].size
            /\ Len(receiver.chunks) > 0
            /\ Concat(receiver.chunks) = file
            /\ receiver.artifact # <<>> => receiver.artifact[1].bytes = file
  /\ impl = "NexusDropClient" =>
       /\ TransferRanToCompletion => Len(receiver.received) = 1
       /\ \A i \in 1..Len(receiver.received) :
            /\ receiver.received[i].blob.bytes = file
            /\ receiver.received[i].size = Len(file)
            /\ receiver.reported # <<>>
            /\ receiver.reported[1].received = receiver.received[i].size

\* C3 witnesses: a file of several chunks whose length is no multiple of the
\* chunk size has been reassembled, by TransferView after a deferred send.
C3_Witness ==
  /\ impl = "TransferView"
  /\ Len(file) > CHUNK_SIZE /\ Len(file) % CHUNK_SIZE # 0
  /\ \E i, j \in 1..Len(file) : file[i] # file[j]
  /\ receiver.artifact # <<>>

\* ------------------------------------------------ transfer: reading the wire
\* The metadata control message, the end-of-file control message, a data frame.
IsMetadata(m) == m.kind = "string" /\ m.data.type \in {"METADATA", "file-start"}
IsEof(m) == m.kind = "string" /\ m.data.type \in {"EOF", "file-end"}
IsData(m) == m.kind = "binary"

\* The file bytes a data frame carries (NexusDropClient prefixes the file id).
Payload(m) ==
  IF impl = "NexusDropClient" THEN SubSeq(m.data, ID_LEN + 1, Len(m.data)) ELSE m.data

\* The file bytes carried by the data frames among the first n messages.
RECURSIVE BytesBefore(_)
BytesBefore(n) ==
  IF n = 0 THEN 0
  ELSE BytesBefore(n - 1) + (IF IsData(wire[n]) THEN Len(Payload(wire[n])) ELSE 0)

\* File offset of the frame at position i of the wire.
OffsetAt(i) == BytesBefore(i - 1)

DataPositions == {i \in 1..Len(wire) : IsData(wire[i])}

CeilDiv(n, d) == (n + d - 1) \div d

\* The sender ran to its end over a channel that stayed open.
SenderFinished == sender.status \in {"COMPLETED", "SENT"} /\ chanOpen

\* One metadata message first, one end-of-file last, data frames between,
\* each of at most CHUNK_SIZE file bytes and all but the last of exactly
\* CHUNK_SIZE.
FramesWellFormed ==
  /\ Len(wire) >= 2
  /\ IsMetadata(wire[1])
  /\ IsEof(wire[Len(wire)])
  /\ DataPositions = 2..(Len(wire) - 1)
  /\ \A i \in DataPositions :
       /\ Len(Payload(wire[i])) <= CHUNK_SIZE
       /\ i < Len(wire) - 1 => Len(Payload(wire[i])) = CHUNK_SIZE

\* C16 (as claimed): a file of S bytes puts on the channel one file-start,
\* exactly ceil(S / K) data frames and one file-end, for every S >= 0.
C16_FrameCount ==
  SenderFinished =>
    /\ FramesWellFormed
    /\ Cardinality(DataPositions) = CeilDiv(Len(file), CHUNK_SIZE)

\* C16 (amended): one file-start, one file-end, and between them exactly
\* ceil(S / K) data frames when S > 0 and exactly one data frame, carrying no
\* file bytes, when S = 0.
C16_FrameCountOneForEmpty ==
  SenderFinished =>
    /\ FramesWellFormed
    /\ Cardinality(DataPositions) =
         IF Len(file) = 0 THEN 1 ELSE CeilDiv(Len(file), CHUNK_SIZE)
    /\ BytesBefore(Len(wire)) = Len(file)

\* C16 witness: a file of exactly two chunks has been sent.
C16_Witness ==
  /\ SenderFinished
  /\ Len(file) = 2 * CHUNK_SIZE
  /\ Cardinality(DataPositions) = 2

\* C17: on the wire the metadata message comes first and once, each data
\* frame carries the file's bytes from the offset where the frame before it
\* ended (offsets strictly increase, nothing skipped, nothing repeated), the
\* end-of-file message comes only after the frame that completes the file,
\* and nothing follows it.
C17_FrameOrder ==
  /\ wire # <<>> => IsMetadata(wire[1])
  /\ \A i \in 2..Len(wire) : ~IsMetadata(wire[i])
  /\ \A i \in 1..Len(wire) :
       IsEof(wire[i]) =>
         /\ i = Len(wire)
         /\ OffsetAt(i) = Len(file)
         /\ i > 2 /\ IsData(wire[i - 1])
  /\ \A i \in DataPositions :
       LET off == OffsetAt(i)
           n   == Len(Payload(wire[i]))
       IN /\ off + n <= Len(file)
          /\ Payload(wire[i]) = SubSeq(file, off + 1, off + n)
  /\ \A i, j \in DataPositions : i < j => OffsetAt(i) < OffsetAt(j)

\* C17 witness: three data frames and the end-of-file message are on the wire
\* of a file whose bytes differ.
C17_Witness ==
  /\ Cardinality(DataPositions) = 3
  /\ IsEof(wire[Len(wire)])
  /\ \E i, j \in 1..Len(file) : file[i] # file[j]

\* C18: once a send has failed (the channel was not open when the metadata,
\* a chunk or the end-of-file was due), the sender is in a failure status,
\* has stopped reading and sending, has emitted no end-of-file and reports
\* no success.
C18_AbortOnSendFailure ==
  sender.sendFailed =>
    /\ sender.status = "ERROR"
    /\ sender.pc = "stopped"
    /\ \A i \in 1..Len(wire) : ~IsEof(wire[i])

\* The receiving session has had its metadata and not its end-of-file.
ReceivingSessionOpen ==
  IF impl = "TransferView"
  THEN receiver.meta # <<>> /\ receiver.status # "COMPLETED"
  ELSE DOMAIN receiver.receivingFiles # {}

\* The status of the receiving session.
ReceiverStatus ==
  IF impl = "TransferView" THEN receiver.status
  ELSE IF DOMAIN receiver.receivingFiles # {} THEN "RECEIVING"
  ELSE IF receiver.received # <<>> THEN "COMPLETE"
  ELSE "IDLE"

\* C19: when the channel has closed on a receiving session that had its
\* metadata and not its end-of-file, the session is FAILED: it is not left
\* in the receiving state and not reported complete.
C19_PrematureCloseFails ==
  (~chanOpen /\ ReceivingSessionOpen) => ReceiverStatus = "FAILED"

\* A receiving session cut off by the close is never reported complete.
CutOffNeverComplete ==
  (~chanOpen /\ ReceivingSessionOpen) =>
    /\ ReceiverStatus \notin {"COMPLETED", "COMPLETE"}
    /\ impl = "TransferView" => receiver.artifact = <<>>

\* C20: under fair timers and channel events a sender session that has
\* started reaches a terminal status: complete, or failed.
C20_SenderTerminates ==
  (sender.status \in {"TRANSFERRING", "SENDING"})
    ~> (sender.status \in {"COMPLETED", "SENT", "ERROR"})

\* -------------------------------------------- receiver: reading a delivery
\* This step hands the oldest queued message to the receiver's handler.
Delivery == chan # <<>> /\ chanOpen /\ chanOpen' /\ chan' = Tail(chan)

\* The session identifier a message carries (NexusDropClient), if any.
FrameId(m) ==
  IF m.kind = "string" THEN <<m.data.fileId>>
  ELSE IF Len(m.data) >= ID_LEN THEN <<SubSeq(m.data, 1, ID_LEN)>>
  ELSE <<>>

\* A session is open for message m: its metadata came and its end-of-file
\* did not.
SessionOpenFor(m) ==
  IF impl = "TransferView"
  THEN receiver.meta # <<>> /\ receiver.status = "TRANSFERRING"
  ELSE FrameId(m) # <<>> /\ FrameId(m)[1] \in DOMAIN receiver.receivingFiles

\* C21: a data frame delivered while no session is open for it is dropped:
\* no fragment stored, no byte counter changed, no session created.
C21_StrayFrameDropped ==
  [][(Delivery /\ IsData(Head(chan)) /\ ~SessionOpenFor(Head(chan)))
       => receiver' = receiver]_vars

\* NexusDropClient drops a data frame whose prefix names no open session,
\* and one too short to carry a prefix.
ClientDropsStrayFrame ==
  [][(impl = "NexusDropClient" /\ Delivery /\ IsData(Head(chan))
        /\ ~SessionOpenFor(Head(chan)))
       => receiver' = receiver]_vars

\* C22: for every receiving session the stored fragments' total length and
\* the byte counter never exceed the size declared in its metadata.
C22_FragmentsWithinDeclaredSize ==
  IF impl = "TransferView"
  THEN receiver.meta # <<>> =>
         /\ SumLen(receiver.chunks) <= receiver.meta[1].size
         /\ receiver.bytes <= receiver.meta[1].size
  ELSE \A id \in DOMAIN receiver.receivingFiles :
         /\ SumLen(receiver.receivingFiles[id].chunks) <= receiver.receivingFiles[id].size
         /\ receiver.receivingFiles[id].receivedSize <= receiver.receivingFiles[id].size

\* NexusDropClient exposes an artifact only in the delivery of the
\* end-of-file of an open session: once, the session's fragments in receipt
\* order, the session closed, every other session untouched; an end-of-file
\* for no open session changes nothing.
ClientExposesOnEofOnly ==
  [][impl = "NexusDropClient" =>
       /\ receiver'.received # receiver.received =>
            /\ Delivery /\ IsEof(Head(chan)) /\ SessionOpenFor(Head(chan))
            /\ LET id == Head(chan).data.fileId
                   fileInfo == receiver.receivingFiles[id]
               IN /\ receiver'.received =
                       Append(receiver.received,
                              [name |-> fileInfo.name, size |-> fileInfo.size,
                               mimeType |-> fileInfo.mimeType,
                               blob |-> [bytes |-> Concat(fileInfo.chunks),
                                         type |-> fileInfo.mimeType]])
                  /\ receiver'.receivingFiles = MapDelete(receiver.receivingFiles, id)
       /\ (Delivery /\ IsEof(Head(chan)) /\ ~SessionOpenFor(Head(chan)))
            => receiver' = receiver]_vars

\* C23: the receiver exposes the artifact of a session once and only on its
\* end-of-file: the fragments concatenated in receipt order; an artifact once
\* exposed is not replaced, and a second end-of-file or one for an unknown
\* session exposes nothing.
C23_ArtifactOnceOnEof ==
  /\ ClientExposesOnEofOnly
  /\ [][impl = "TransferView" =>
          (receiver'.artifact # receiver.artifact =>
             /\ receiver.artifact = <<>>
             /\ receiver.status = "COMPLETED"
             /\ receiver'.artifact[1].bytes = Concat(receiver.chunks))]_vars

TerminalStatuses == {"COMPLETED", "COMPLETE", "FAILED", "ERROR"}

\* C24: a session whose status is COMPLETED, FAILED or ERROR keeps that
\* status, on the sender and on the receiver.
C24_TerminalStatusStable ==
  [][/\ sender.status \in TerminalStatuses => sender'.status = sender.status
     /\ (impl = "TransferView" /\ receiver.status \in TerminalStatuses)
          => receiver'.status = receiver.status]_vars

\* The sender's terminal statuses are stable.
SenderTerminalStatusStable ==
  [][sender.status \in TerminalStatuses => sender'.status = sender.status]_vars

\* A reported progress value: within [0, 100], and 100 only when complete.
ProgressReportOk(progress, status) ==
  /\ progress \in 0..100
  /\ progress = 100 => status = "COMPLETED"

\* C25: the reported progress of a session stays within [0, 100], never
\* decreases, and is 100 only in states whose status is COMPLETED.
C25_ProgressMonotone ==
  /\ [](impl = "TransferView" =>
          /\ ProgressReportOk(sender.progress, sender.status)
          /\ ProgressReportOk(receiver.progress, receiver.status))
  /\ [][impl = "TransferView" =>
          /\ sender'.progress >= sender.progress
          /\ receiver'.progress >= receiver.progress]_vars

\* The sending side of C25 alone.
SenderProgressMonotone ==
  /\ [](impl = "TransferView" => ProgressReportOk(sender.progress, sender.status))
  /\ [][impl = "TransferView" => sender'.progress >= sender.progress]_vars

\* C27: at a NexusDropClient receiver with several sessions open, a data
\* frame is appended to the session its prefix names and to no other, and
\* no message (start, data, end-of-file) changes the fragments, byte count
\* or metadata of a session other than the one it names.
C27_SessionIsolation ==
  [][(impl = "NexusDropClient" /\ Delivery) =>
       LET m   == Head(chan)
           rf  == receiver.receivingFiles
           rf1 == receiver'.receivingFiles
           own == IF FrameId(m) = <<>> THEN {} ELSE {FrameId(m)[1]}
       IN /\ \A id \in DOMAIN rf \ own : id \in DOMAIN rf1 /\ rf1[id] = rf[id]
          /\ DOMAIN rf1 \subseteq DOMAIN rf \cup own
          /\ (IsData(m) /\ SessionOpenFor(m)) =>
               rf1[FrameId(m)[1]].chunks =
                 Append(rf[FrameId(m)[1]].chunks, SubSeq(m.data, ID_LEN + 1, Len(m.data)))]_vars

\* C27 witness: two sessions are open and each holds a fragment of its own.
C27_Witness ==
  /\ impl = "NexusDropClient"
  /\ Cardinality(DOMAIN receiver.receivingFiles) = 2
  /\ \E a, b \in DOMAIN receiver.receivingFiles :
       /\ a # b
       /\ receiver.receivingFiles[a].chunks = << <<0>> >>
       /\ receiver.receivingFiles[b].chunks = << <<1>> >>

\* After a reset at the sending side: nothing more is sent, the transfer
\* does not advance, and no success is reported that was not already.
SenderCancelled ==
  cancel.by = "sender" =>
    /\ ~chanOpen
    /\ Len(wire) = cancel.wireLen
    /\ sender.offset = cancel.offset
    /\ sender.status \in {"SENT", "COMPLETED"} => sender.status = cancel.status

\* After a reset at the receiving side: the buffered fragments are gone and
\* no artifact is exposed that was not already.
ReceiverCancelled ==
  cancel.by = "receiver" =>
    /\ ~chanOpen
    /\ IF impl = "TransferView"
       THEN receiver.chunks = <<>> /\ receiver.artifact = <<>>
       ELSE receiver.receivingFiles = <<>> /\ Len(receiver.received) = cancel.received

\* C26: after a user-initiated reset or cleanup no further frame of the file
\* in flight is sent, no pending retry or scheduled next-chunk step carries
\* the transfer on, the fragments buffered for receiving sessions are
\* discarded, the connection is released, and neither an artifact nor a
\* success report of the cancelled session appears afterwards.
C26_Cancellation == SenderCancelled /\ ReceiverCancelled

\* The part of C26 that App.resetApp and TransferView meet.
ViewCancellation == impl = "TransferView" => SenderCancelled /\ ReceiverCancelled

\* The part of C26 about frames: no frame is sent after a reset.
NoFrameAfterCancel == cancel.by # "none" => ~chanOpen /\ Len(wire) = cancel.wireLen

\* ------------------------------------------------- negotiation: the record
RECURSIVE Copies(_)
Copies(S) ==
  IF S = {} THEN 0
  ELSE LET e == CHOOSE x \in S : TRUE IN CopiesIn(e, log) + Copies(S \ {e})

\* How many times node a did `ev` towards node b.
Times(ev, a, b) == Copies({e \in BagToSet(log) : e.ev = ev /\ e.by = a /\ e.to = b})

\* Node a created a data channel for its connection with b (the browser
\* application has one connection per tab, whoever the remote is).
CreatedChannel(a, b) ==
  \E e \in BagToSet(log) : e.ev = "datachannel" /\ e.by = a /\ e.to \in {b, 0}

\* C28: a coordinator sends at most one offer to a given remote peer, also
\* when a join notification is repeated or dispatched to the handler twice.
C28_OfferOnce == \A a, b \in NegPeers : Times("offer", a, b) <= 1

\* NexusDropClient sends one offer per peer listed in room-joined.
ClientOfferOnce ==
  impl = "NexusDropClient" => \A a, b \in NegPeers : Times("offer", a, b) <= 1

\* C29: of two peers that negotiated (one answered the other's offer),
\* exactly one created the data channel and the offer, and the other
\* created neither.
C29_OneInitiator ==
  \A a, b \in NegPeers :
    Times("answer", b, a) > 0 =>
      /\ Times("offer", a, b) > 0 /\ CreatedChannel(a, b)
      /\ Times("offer", b, a) = 0 /\ ~CreatedChannel(b, a)

\* C29 for NexusDropClient alone.
ClientOneInitiator == impl = "NexusDropClient" => C29_OneInitiator

\* The node that called joinSession / joinRoom, and the one that hosts.
IsJoiner(n) ==
  IF impl = "App" THEN nodes[n].role = "RECEIVER" ELSE nodes[n].asked = "join-room"

AppNegotiated ==
  /\ impl = "App"
  /\ \E a, b \in NegPeers :
       /\ Times("offer", a, b) > 0
       /\ Times("answer", b, a) > 0
       /\ nodes[a].pc # <<>> /\ nodes[a].pc[1].remote

\* ------------------------------------------ registry: snapshot and confinement
\* q is listed in the room-joined message the last handler wrote to the joiner.
ListedInRoomJoined(q) ==
  \E e \in MsgsTo(lastOp.peer) : e.msg.type = "room-joined" /\ q \in e.msg.peers

\* q was written the peer-joined message naming the joiner.
ToldPeerJoined(q) == [to |-> q, msg |-> PeerJoined(lastOp.peer)] \in BagToSet(sent)

\* C34 (as claimed): within one joinRoom a peer is listed in the joiner's
\* room-joined if and only if it is delivered the peer-joined naming the
\* joiner, also when a member's connection is closing.
C34_ListedIffNotified ==
  JoinOfLiveRoom => \A q \in PeerIds : ListedInRoomJoined(q) <=> ToldPeerJoined(q)

\* C34 (amended): the peers listed in room-joined are exactly the members of
\* the room after the join other than the joiner, and the peers delivered
\* peer-joined are exactly the listed ones whose socket is OPEN; both come
\* from the one member set the handler leaves behind.
C34_NotifiedAreListedAndOpen ==
  JoinOfLiveRoom =>
    \A q \in PeerIds :
      /\ ListedInRoomJoined(q) <=> (q \in rooms[lastOp.roomId] /\ q # lastOp.peer)
      /\ ToldPeerJoined(q) <=> (ListedInRoomJoined(q) /\ ConnectedBefore(q))

\* C34 witness: a join of a room with one member whose socket is closing
\* (listed, not notified) and one whose socket is OPEN (listed and notified).
C34_Witness ==
  /\ JoinOfLiveRoom
  /\ \E q1, q2 \in PeerIds :
       /\ ListedInRoomJoined(q1) /\ ~ToldPeerJoined(q1)
       /\ ListedInRoomJoined(q2) /\ ToldPeerJoined(q2)

\* C35: for every connected peer p and room code r, p's recorded room is r
\* if and only if p is in the member set of the live room r; so a peer is a
\* member of at most one room.
C35_MembershipConsistent ==
  \A p \in DOMAIN peers :
    \A r \in RoomCodes :
      (peers[p].roomId = r) <=> (r \in DOMAIN rooms /\ p \in rooms[r])

\* A recorded room association is null or one of the codes handed out.
RecordedRoomIsACode ==
  \A p \in DOMAIN peers : peers[p].roomId \in RoomCodes \cup {NoRoom}

\* C36: every message the relay delivers, broadcast or addressed, goes only
\* to members of the sender's room at the time of the relay.
C36_RelayConfinedToRoom ==
  lastOp.op = "forward" =>
    IF RequesterInLiveRoom
    THEN Recipients \subseteq before.rooms[RoomOfRequester]
    ELSE Recipients = {}

\* The broadcast half of C36: a message without recipient stays in the
\* member set of the sender's room.
BroadcastConfinedToRoom ==
  (lastOp.op = "forward" /\ lastOp.msg.to = NoTo) =>
    IF RequesterInLiveRoom
    THEN Recipients \subseteq before.rooms[RoomOfRequester] \ {lastOp.peer}
    ELSE Recipients = {}

\* ------------------------------------ the in-browser signaling: dispatch
\* This step is tab t's channel.onmessage taking the oldest message.
TakesMessage(t) == impl = "App" /\ Len(inbox'[t]) = Len(inbox[t]) - 1

\* The message is for the room this tab created or joined.
ForLocalRoom(t, msg) == nodes[t].roomId # AppNoRoom /\ msg.roomId = nodes[t].roomId

\* C39: SignalingService hands a received message to onMessage exactly
\* once when a local room is set and the message's roomId equals it, and
\* not at all otherwise; no kind of message is handed over twice.
C39_DispatchedOnce ==
  [][\A t \in DOMAIN nodes :
       TakesMessage(t) =>
         LET msg == Head(inbox[t])
             r == onMessage(nodes[t], t, msg)
         IN IF ForLocalRoom(t, msg)
            THEN nodes'[t] = r.tab /\ log' = log (+) r.log
            ELSE nodes'[t] = nodes[t] /\ log' = log]_vars

\* The same for every kind of message but JOIN, and for messages that are
\* not for the local room.
DispatchedOnceButJoin ==
  [][\A t \in DOMAIN nodes :
       (TakesMessage(t) /\ ~(Head(inbox[t]).type = "JOIN" /\ ForLocalRoom(t, Head(inbox[t])))) =>
         LET msg == Head(inbox[t])
             r == onMessage(nodes[t], t, msg)
         IN IF ForLocalRoom(t, msg)
            THEN nodes'[t] = r.tab /\ log' = log (+) r.log
            ELSE nodes'[t] = nodes[t] /\ log' = log]_vars

\* ------------------------------------------- lifecycle: failure and teardown
\* The connection records node n holds.
Records(n) ==
  IF impl = "App" THEN { nodes[n].pc[i] : i \in DOMAIN nodes[n].pc }
  ELSE { nodes[n].pcs[r] : r \in DOMAIN nodes[n].pcs }

\* C31: once the transport of a connection has reported failed or
\* disconnected, or the node was torn down, the coordinator is CLOSED and
\* stays so: no record of a failed connection is held, and a torn-down node
\* holds no record at all.
C31_FailedOrTornDownIsClosed ==
  \A n \in DOMAIN nodes :
    /\ \A pc \in Records(n) : pc.connectionState # "failed"
    /\ nodes[n].done => Records(n) = {}

\* NexusDropClient holds no record of a failed connection.
ClientFailedIsClosed ==
  impl = "NexusDropClient" =>
    \A n \in DOMAIN nodes : \A pc \in Records(n) : pc.connectionState # "failed"

\* Teardown itself releases the records, in both programs.
TeardownReleases ==
  [][\A n \in DOMAIN nodes :
       (~nodes[n].done /\ nodes'[n].done) =>
         (IF impl = "App" THEN nodes'[n].pc = <<>> ELSE nodes'[n].pcs = <<>>)]_vars

\* ------------------------------------------------------ lifecycle: candidates
IsCandidate(msg) == msg.type \in {"ICE_CANDIDATE", "ice-candidate"}

\* The peer a delivered message came from.
CameFrom(msg) == IF impl = "App" THEN msg.src ELSE msg.from

\* Node n takes the oldest message of its inbox in this step.
Takes(n) == Len(inbox'[n]) = Len(inbox[n]) - 1

\* Node n, not torn down, holds a connection for the session it shares with
\* peer p.
InSessionWith(n, p) ==
  /\ ~nodes[n].done
  /\ IF impl = "App"
     THEN nodes[n].pc # <<>> /\ nodes[n].roomId # AppNoRoom /\ nodes[n].roomId = nodes[p].roomId
     ELSE p \in DOMAIN nodes[n].pcs

\* A candidate message in flight is addressed to the room of the node that
\* sent it (browser application) or to another peer (NexusDropClient).
CandidatesAddressed(who) ==
  /\ \A t \in DOMAIN inbox' : \A i \in DOMAIN inbox'[t] :
       (impl = "App" /\ inbox'[t][i].type = "ICE_CANDIDATE" /\ who[inbox'[t][i].src])
         => inbox'[t][i].roomId = nodes'[inbox'[t][i].src].roomId
  /\ \A c \in DOMAIN toServer' : \A i \in DOMAIN toServer'[c] :
       toServer'[c][i].type = "ice-candidate" => toServer'[c][i].to \in DOMAIN nodes \ {c}

\* A candidate delivered to a node that holds a connection for the session
\* with its sender is applied to that connection.
CandidatesApplied(who) ==
  \A n \in DOMAIN nodes :
    LET p == CameFrom(Head(inbox[n]))
    IN (Takes(n) /\ IsCandidate(Head(inbox[n])) /\ who[p] /\ InSessionWith(n, p))
         => LET e == Event("candidate-applied", n, p, Head(inbox[n]).type)
            IN CopiesIn(e, log') = CopiesIn(e, log) + 1

Everyone == [n \in DOMAIN nodes |-> TRUE]

\* The tabs that joined with a code, and every NexusDropClient.
Joiners == [n \in DOMAIN nodes |-> impl = "NexusDropClient" \/ nodes[n].joinCode # AppNoRoom]

\* C32: every candidate a node discovers, host or joiner, is sent addressed
\* to the session's room or remote peer, and every candidate that reaches
\* the other peer of the session is applied to the connection for the peer
\* it came from.
C32_CandidatesExchanged ==
  [][CandidatesAddressed(Everyone) /\ CandidatesApplied(Everyone)]_vars

\* The same for the candidates of the joining tabs and of NexusDropClient.
JoinerCandidatesExchanged ==
  [][CandidatesAddressed(Joiners) /\ CandidatesApplied(Joiners)]_vars

\* --------------------------------------------------------- lifecycle: answers
\* How often the record `bag` holds event ev by a towards b.
TimesIn(bag, ev, a, b) ==
  LET S == {e \in BagToSet(bag) : e.ev = ev /\ e.by = a /\ e.to = b}
      RECURSIVE Sum(_)
      Sum(T) == IF T = {} THEN 0
                ELSE LET e == CHOOSE x \in T : TRUE IN CopiesIn(e, bag) + Sum(T \ {e})
  IN Sum(S)

\* The connection node n holds for remote peer p: a sequence of none or one.
RecordFor(n, p) ==
  IF impl = "App" THEN nodes[n].pc
  ELSE IF p \in DOMAIN nodes[n].pcs THEN <<nodes[n].pcs[p]>> ELSE <<>>

\* Node n has sent p an offer that no answer was applied to.
OfferSent(n, p) ==
  RecordFor(n, p) # <<>> /\ RecordFor(n, p)[1].signalingState = "have-local-offer"

IsAnswer(msg) == msg.type \in {"ANSWER", "answer"}

C38_OneConnectionPerPeer ==
  impl = "NexusDropClient" => \A n \in DOMAIN nodes : nodes[n].orphans = {}

\* After handlePeerLeft for a peer, and after cleanup, the map holds no
\* entry for that peer, or none at all.
EntriesReleased ==
  [][impl = "NexusDropClient" =>
       \A n \in DOMAIN nodes :
         /\ \A p \in DOMAIN nodes :
              TimesIn(log', "failed", n, p) # TimesIn(log, "failed", n, p)
                => p \notin DOMAIN nodes'[n].pcs
         /\ (Takes(n) /\ Head(inbox[n]).type = "peer-left")
              => Head(inbox[n]).peerId \notin DOMAIN nodes'[n].pcs
         /\ (~nodes[n].done /\ nodes'[n].done) => nodes'[n].pcs = <<>>]_vars

\* ------------------------------------------------------------ fan-out
\* The fileId a frame handed to channel.send belongs to.
FrameFileId(m) == IF m.kind = "string" THEN m.data.fileId ELSE SubSeq(m.data, 1, ID_LEN)

IsFileStart(m) == m.kind = "string" /\ m.data.type = "file-start"

\* On every channel a data frame or file-end comes after the file-start
\* of its file.
StartComesFirst(out) ==
  \A p \in DOMAIN out : \A i \in DOMAIN out[p] :
    ~IsFileStart(out[p][i]) =>
      \E j \in 1..(i - 1) :
        IsFileStart(out[p][j]) /\ FrameFileId(out[p][j]) = FrameFileId(out[p][i])

\* C37: the frames of a file go only to the channels that were open when
\* sendFile started: a step sends only on channels of that array, a channel
\* that opened later gets none, no channel carries a data frame or file-end
\* without the file-start of that file before it, and a sendFile that finds
\* no open channel reports an error and sends nothing.
C37_FanoutFixedAtStart ==
  [][/\ \A p \in FanPeers :
          fan'.out[p] # fan.out[p] => (p \in fan'.channels /\ fan.readyState[p] = "open")
     /\ (fan'.sends # fan.sends /\ fan'.pc = "reading") => fan'.channels = OpenChannels(fan)
     /\ fan'.sends = fan.sends => fan'.channels = fan.channels
     /\ StartComesFirst(fan'.out)
     /\ (fan'.sends # fan.sends /\ OpenChannels(fan) = {}) =>
          (fan'.out = fan.out /\ fan'.errors = fan.errors + 1 /\ fan'.pc = "stopped")]_vars

\* A file is being sent to peer q, and the channel to peer p, which opened
\* after sendFile started, has carried nothing.
C37_Witness ==
  /\ fan # NoFanout
  /\ fan.pc = "scheduled"
  /\ \E p, q \in FanPeers :
       /\ fan.readyState[p] = "open" /\ p \notin fan.channels /\ fan.out[p] = <<>>
       /\ q \in fan.channels /\ Len(fan.out[q]) >= 2

\* A sendFile found no open channel: one error, nothing sent.
FanoutErrorSeen ==
  fan # NoFanout /\ fan.errors = 1 /\ \A p \in FanPeers : fan.out[p] = <<>>

====
